---- MODULE Spec2Model ----
(***************************************************************************)
(* Reload lifecycle of orgdatacore: the thread-based Service               *)
(* (python/orgdatacore/_service.py), the task-based AsyncService           *)
(* (python/orgdatacore/_async.py), the polling GCS data sources            *)
(* (python/orgdatacore/datasources.py, _async.py) and the retry helper.    *)
(***************************************************************************)
EXTENDS Integers, Sequences, FiniteSets, TLC

(***************************************************************************)
(* Bounds of the model.                                                    *)
(***************************************************************************)
\* caller operations issued on the service
MaxOps == 2
\* highest generation the watched object reaches (it starts at 1)
MaxGen == 2
\* polling loops that can exist at once
NumPollers == 2
\* retry helper: failures of the operation, retry budget, delay, factor
MaxN == 4
MaxBudget == 3
MaxDelay == 2
MaxBackoff == 2

\* thread and task identities: the caller, the polling loops, _run_watcher
Main == 0
Pollers == 1..NumPollers
RunWatcher == NumPollers + 1
Threads == {Main, RunWatcher} \cup Pollers

(***************************************************************************)
(* _retry_with_backoff / _async_retry_with_backoff.  The operation fails   *)
(* on its first n invocations (raising error k on invocation k) and then   *)
(* succeeds.  The loop is unrolled attempt by attempt as the code runs it. *)
(***************************************************************************)
RECURSIVE retry_loop(_, _, _, _, _, _, _)
retry_loop(attempt, n, max_retries, delay, backoff, waits, last_error) ==
    IF attempt >= max_retries + 1
    THEN [ok |-> FALSE, calls |-> attempt, waits |-> waits,
          attempts_in_message |-> max_retries + 1, last_error |-> last_error]
    ELSE IF attempt >= n
         THEN [ok |-> TRUE, calls |-> attempt + 1, waits |-> waits,
               attempts_in_message |-> 0, last_error |-> last_error]
         ELSE IF attempt < max_retries
              THEN retry_loop(attempt + 1, n, max_retries, delay * backoff, backoff,
                              Append(waits, delay), attempt + 1)
              ELSE retry_loop(attempt + 1, n, max_retries, delay, backoff,
                              waits, attempt + 1)

\* the loop written as range(max_retries): one attempt short
retry_one_attempt_short(n, max_retries, initial_delay, backoff) ==
    retry_loop(0, n, max_retries - 1, initial_delay, backoff, <<>>, 0)

\* the helper with a delay that never grows
retry_constant_delay(n, max_retries, initial_delay, backoff) ==
    retry_loop(0, n, max_retries, initial_delay, 1, <<>>, 0)

retry_with_backoff(n, max_retries, initial_delay, backoff) ==
    retry_loop(0, n, max_retries, initial_delay, backoff, <<>>, 0)

RECURSIVE async_retry_loop(_, _, _, _, _, _, _)
async_retry_loop(attempt, n, max_retries, delay, backoff, waits, last_error) ==
    IF attempt >= max_retries + 1
    THEN [ok |-> FALSE, calls |-> attempt, waits |-> waits,
          attempts_in_message |-> max_retries + 1, last_error |-> last_error]
    ELSE IF attempt >= n
         THEN [ok |-> TRUE, calls |-> attempt + 1, waits |-> waits,
               attempts_in_message |-> 0, last_error |-> last_error]
         ELSE IF attempt < max_retries
              THEN async_retry_loop(attempt + 1, n, max_retries, delay * backoff, backoff,
                                    Append(waits, delay), attempt + 1)
              ELSE async_retry_loop(attempt + 1, n, max_retries, delay, backoff,
                                    waits, attempt + 1)

async_retry_with_backoff(n, max_retries, initial_delay, backoff) ==
    async_retry_loop(0, n, max_retries, initial_delay, backoff, <<>>, 0)

(***************************************************************************)
(* Payloads held by the watched object.  A payload is the byte content:    *)
(* either malformed JSON or a JSON document whose sections are a mapping   *)
(* ("dict" with its value), missing ("absent") or of another JSON type     *)
(* ("scalar").                                                             *)
(***************************************************************************)
Uids == {"alice", "bob"}
SlackIds == {"U1"}
TeamNames == {"t1", "t2"}

Section(v) == [kind |-> "dict", value |-> v]
Absent == [kind |-> "absent", value |-> {}]
Scalar == [kind |-> "scalar", value |-> {}]

TeamMembership(name) == [name |-> name, type |-> "team"]

GoodA ==
    [wellformed |-> TRUE, data_version |-> "A",
     employees |-> Section({"alice", "bob"}),
     orgs |-> Section({"o1"}),
     membership_index |-> Section({<<"alice", <<TeamMembership("t1")>> >>}),
     slack_uid_to_uid |-> Section({<<"U1", "alice">>}),
     teams |-> Section({<<"t1", <<"alice">> >>})]

GoodB ==
    [wellformed |-> TRUE, data_version |-> "B",
     employees |-> Section({"alice", "bob"}),
     orgs |-> Section({"o1", "o2"}),
     membership_index |-> Section({<<"alice", <<TeamMembership("t2")>> >>,
                                   <<"bob", <<TeamMembership("t1")>> >>}),
     slack_uid_to_uid |-> Section({<<"U1", "bob">>}),
     teams |-> Section({<<"t1", <<"bob">> >>, <<"t2", <<"alice">> >>})]

BadJson ==
    [wellformed |-> FALSE, data_version |-> "",
     employees |-> Absent, orgs |-> Absent,
     membership_index |-> Absent, slack_uid_to_uid |-> Absent, teams |-> Absent]

BadStruct ==
    [wellformed |-> TRUE, data_version |-> "S",
     employees |-> Scalar,
     orgs |-> Section({"o1"}),
     membership_index |-> Section({<<"alice", <<TeamMembership("t1")>> >>}),
     slack_uid_to_uid |-> Section({<<"U1", "alice">>}),
     teams |-> Section({<<"t1", <<"alice">> >>})]

NoEmployees ==
    [wellformed |-> TRUE, data_version |-> "E",
     employees |-> Section({}),
     orgs |-> Section({"o1"}),
     membership_index |-> Section({<<"alice", <<TeamMembership("t1")>> >>}),
     slack_uid_to_uid |-> Section({<<"U1", "alice">>}),
     teams |-> Section({<<"t1", <<"alice">> >>})]

Payloads == {GoodA, GoodB, BadJson, BadStruct, NoEmployees}

NoPayload == [wellformed |-> FALSE, data_version |-> "none",
              employees |-> Absent, orgs |-> Absent,
              membership_index |-> Absent, slack_uid_to_uid |-> Absent, teams |-> Absent]

(***************************************************************************)
(* json.load, parse_data, _validate_data.                                  *)
(***************************************************************************)
NoData == [loaded |-> FALSE, data_version |-> "", employees |-> {}, orgs |-> {},
           membership_index |-> {}, slack_uid_to_uid |-> {}, teams |-> {}]

json_load(payload) ==
    IF payload.wellformed THEN [ok |-> TRUE, raw |-> payload]
    ELSE [ok |-> FALSE, raw |-> payload]

\* raw.get(key, {}) followed by .items(): a section of another type raises
SectionRaises(raw) ==
    \/ raw.employees.kind = "scalar"
    \/ raw.orgs.kind = "scalar"
    \/ raw.membership_index.kind = "scalar"
    \/ raw.teams.kind = "scalar"

parse_data(raw) ==
    IF SectionRaises(raw) THEN [ok |-> FALSE, data |-> NoData]
    ELSE [ok |-> TRUE,
          data |-> [loaded |-> TRUE,
                    data_version |-> raw.data_version,
                    employees |-> raw.employees.value,
                    orgs |-> raw.orgs.value,
                    membership_index |-> raw.membership_index.value,
                    slack_uid_to_uid |-> raw.slack_uid_to_uid.value,
                    teams |-> raw.teams.value]]

validate_data(d) ==
    /\ d.employees # {}
    /\ d.membership_index # {}

DataVersion(load_time, d) ==
    [load_time |-> load_time,
     org_count |-> Cardinality(d.orgs),
     employee_count |-> Cardinality(d.employees)]

DefaultVersion == [load_time |-> 0, org_count |-> 0, employee_count |-> 0]

(***************************************************************************)
(* Lookups on a snapshot.                                                  *)
(***************************************************************************)
\* dict.get(key, default) on a mapping held as a set of pairs
DictGet(m, key, default) ==
    IF \E e \in m : e[1] = key THEN (CHOOSE e \in m : e[1] = key)[2] ELSE default

get_uid_from_slack_id(d, slack_id) ==
    IF ~d.loaded \/ d.slack_uid_to_uid = {} THEN ""
    ELSE DictGet(d.slack_uid_to_uid, slack_id, "")

get_teams_for_uid(d, uid) ==
    IF ~d.loaded \/ d.membership_index = {} THEN {}
    ELSE LET ms == DictGet(d.membership_index, uid, <<>>)
         IN {ms[i].name : i \in {j \in DOMAIN ms : ms[j].type = "team"}}

is_employee_in_team(d, uid, team_name) == team_name \in get_teams_for_uid(d, uid)

\* get_employee_by_uid dereferencing self._data without testing it for None
get_employee_by_uid_unguarded(d, uid) ==
    IF ~d.loaded THEN "AttributeError"
    ELSE IF uid \in d.employees THEN uid ELSE "None"

\* an employee record is stood for by its uid, None by "None"
get_employee_by_uid(d, uid) ==
    IF ~d.loaded \/ d.employees = {} THEN "None"
    ELSE IF uid \in d.employees THEN uid ELSE "None"

\* get_team_members: the uids of the team's resolved_people_uid_list that
\* are keys of the employee map, in the order of the list
get_team_members(d, team_name) ==
    IF ~d.loaded \/ d.teams = {} THEN <<>>
    ELSE IF ~\E e \in d.teams : e[1] = team_name THEN <<>>
    ELSE LET team == DictGet(d.teams, team_name, <<>>)
             Employed(uid) == uid \in d.employees
         IN SelectSeq(team, Employed)

get_all_employee_uids(d) ==
    IF ~d.loaded \/ d.employees = {} THEN {} ELSE d.employees

get_teams_for_slack_id(d, slack_id) ==
    LET uid == get_uid_from_slack_id(d, slack_id)
    IN IF uid = "" THEN {} ELSE get_teams_for_uid(d, uid)

\* is_slack_user_in_team evaluated entirely on one snapshot
SlackUserInTeamOn(d, slack_id, team_name) ==
    LET uid == get_uid_from_slack_id(d, slack_id)
    IN IF uid = "" THEN FALSE ELSE is_employee_in_team(d, uid, team_name)

Bool(b) == IF b THEN "True" ELSE "False"

(***************************************************************************)
(* The hierarchy entities of a snapshot (data.lookups) and the walks over  *)
(* them.  An entity map is a function from the names it holds to the       *)
(* parent reference of each entity.  The data is not trusted: a parent may *)
(* name the entity itself, close a cycle, or name nothing that exists.     *)
(***************************************************************************)
EntityNames == {"a", "b"}
\* names a parent reference can hold: "z" is held by no entity
ParentNames == EntityNames \cup {"z"}
EntityKinds == {"team", "org"}
\* kinds a caller can pass
QueryKinds == {"team", "org", "pillar", "TEAM", "bogus"}

\* parent = None
NoParent == [name |-> "", type |-> "none"]
ParentRefs == [name : ParentNames, type : EntityKinds] \cup {NoParent}

EntityMaps == UNION {[S -> ParentRefs] : S \in SUBSET EntityNames}
NoEntities == [n \in {} |-> NoParent]

\* data.lookups: teams and orgs of every shape, no pillars or team groups
LookupsSet == [teams : EntityMaps, orgs : EntityMaps,
               pillars : {NoEntities}, team_groups : {NoEntities}]
NoLookups == [teams |-> NoEntities, orgs |-> NoEntities,
              pillars |-> NoEntities, team_groups |-> NoEntities]

\* str.lower() on the kinds in use
lower(s) == IF s = "TEAM" THEN "team" ELSE s

NoEntity == [found |-> FALSE, parent |-> NoParent]

\* the lookup without entity_type.lower()
get_entity_by_type_case_sensitive(loaded, lookups, entity_name, entity_type) ==
    LET lookup == CASE entity_type = "team" -> lookups.teams
                    [] entity_type = "org" -> lookups.orgs
                    [] entity_type = "pillar" -> lookups.pillars
                    [] entity_type = "team_group" -> lookups.team_groups
                    [] OTHER -> NoEntities
    IN IF ~loaded THEN NoEntity
       ELSE IF entity_name \in DOMAIN lookup
            THEN [found |-> TRUE, parent |-> lookup[entity_name]]
            ELSE NoEntity

get_entity_by_type(loaded, lookups, entity_name, entity_type) ==
    LET entity_type_lower == lower(entity_type)
        lookup == CASE entity_type_lower = "team" -> lookups.teams
                    [] entity_type_lower = "org" -> lookups.orgs
                    [] entity_type_lower = "pillar" -> lookups.pillars
                    [] entity_type_lower = "team_group" -> lookups.team_groups
                    [] OTHER -> NoEntities
    IN IF ~loaded THEN NoEntity
       ELSE IF entity_name \in DOMAIN lookup
            THEN [found |-> TRUE, parent |-> lookup[entity_name]]
            ELSE NoEntity

get_entity_type(loaded, lookups, entity_name) ==
    IF ~loaded THEN ""
    ELSE IF entity_name \in DOMAIN lookups.teams THEN "team"
    ELSE IF entity_name \in DOMAIN lookups.orgs THEN "org"
    ELSE IF entity_name \in DOMAIN lookups.pillars THEN "pillar"
    ELSE IF entity_name \in DOMAIN lookups.team_groups THEN "team_group"
    ELSE ""

HierarchyPathEntry(name, type) == [name |-> name, type |-> type]

\* the walk guarded by a depth limit in place of the visited set
RECURSIVE hierarchy_walk_depth_limited(_, _, _, _)
hierarchy_walk_depth_limited(lookups, current, path, visited) ==
    IF ~current.found \/ current.parent = NoParent \/ Len(path) >= 6 THEN path
    ELSE LET parent == current.parent IN
         hierarchy_walk_depth_limited(lookups,
                             get_entity_by_type(TRUE, lookups, parent.name, parent.type),
                             Append(path, HierarchyPathEntry(parent.name, parent.type)),
                             visited \cup {parent.name})

\* the walk appending the parent before it tests the visited set
RECURSIVE hierarchy_walk_appends_first(_, _, _, _)
hierarchy_walk_appends_first(lookups, current, path, visited) ==
    IF ~current.found \/ current.parent = NoParent THEN path
    ELSE LET parent == current.parent IN
         IF parent.name \in visited
         THEN Append(path, HierarchyPathEntry(parent.name, parent.type))
         ELSE hierarchy_walk_appends_first(lookups,
                             get_entity_by_type(TRUE, lookups, parent.name, parent.type),
                             Append(path, HierarchyPathEntry(parent.name, parent.type)),
                             visited \cup {parent.name})

\* the while loop of get_hierarchy_path
RECURSIVE hierarchy_walk(_, _, _, _)
hierarchy_walk(lookups, current, path, visited) ==
    IF ~current.found \/ current.parent = NoParent THEN path
    ELSE LET parent == current.parent IN
         IF parent.name \in visited THEN path
         ELSE hierarchy_walk(lookups,
                             get_entity_by_type(TRUE, lookups, parent.name, parent.type),
                             Append(path, HierarchyPathEntry(parent.name, parent.type)),
                             visited \cup {parent.name})

\* get_hierarchy_path returning only the ancestors, without the entity
get_hierarchy_path_ancestors_only(loaded, lookups, entity_name, entity_type) ==
    IF ~loaded THEN <<>>
    ELSE LET entity == get_entity_by_type(loaded, lookups, entity_name, entity_type) IN
         IF ~entity.found THEN <<>>
         ELSE Tail(hierarchy_walk(lookups, entity,
                                  <<HierarchyPathEntry(entity_name, entity_type)>>,
                                  {entity_name}))

get_hierarchy_path(loaded, lookups, entity_name, entity_type) ==
    IF ~loaded THEN <<>>
    ELSE LET entity == get_entity_by_type(loaded, lookups, entity_name, entity_type) IN
         IF ~entity.found THEN <<>>
         ELSE hierarchy_walk(lookups, entity,
                             <<HierarchyPathEntry(entity_name, entity_type)>>,
                             {entity_name})

MembershipInfo(name, type) == [name |-> name, type |-> type]

\* the loop of is_employee_in_org giving up at the first team membership
\* whose path does not hold the org
RECURSIVE in_org_loop_first_team_only(_, _, _, _, _)
in_org_loop_first_team_only(lookups, memberships, org_name, i, computed) ==
    IF i > Len(memberships) THEN [result |-> FALSE, computed |-> computed]
    ELSE LET membership == memberships[i] IN
         IF membership.type = "org" /\ membership.name = org_name
         THEN [result |-> TRUE, computed |-> computed]
         ELSE IF membership.type = "team"
         THEN LET hierarchy_path ==
                      get_hierarchy_path(TRUE, lookups, membership.name, "team")
              IN [result |-> \E j \in 1..Len(hierarchy_path) :
                                 /\ hierarchy_path[j].type = "org"
                                 /\ hierarchy_path[j].name = org_name,
                  computed |-> Append(computed, i)]
         ELSE in_org_loop_first_team_only(lookups, memberships, org_name, i + 1, computed)

\* the loop of is_employee_in_org over the memberships of one uid, from the
\* i-th on; computed lists the memberships whose hierarchy path was computed
RECURSIVE in_org_loop(_, _, _, _, _)
in_org_loop(lookups, memberships, org_name, i, computed) ==
    IF i > Len(memberships) THEN [result |-> FALSE, computed |-> computed]
    ELSE LET membership == memberships[i] IN
         IF membership.type = "org" /\ membership.name = org_name
         THEN [result |-> TRUE, computed |-> computed]
         ELSE IF membership.type = "team"
         THEN LET hierarchy_path ==
                      get_hierarchy_path(TRUE, lookups, membership.name, "team")
              IN IF \E j \in 1..Len(hierarchy_path) :
                       /\ hierarchy_path[j].type = "org"
                       /\ hierarchy_path[j].name = org_name
                 THEN [result |-> TRUE, computed |-> Append(computed, i)]
                 ELSE in_org_loop(lookups, memberships, org_name, i + 1,
                                  Append(computed, i))
         ELSE in_org_loop(lookups, memberships, org_name, i + 1, computed)

\* is_employee_in_org, memberships being membership_index.get(uid, ()): an
\* empty index, which Service answers before the loop, leaves the loop
\* nothing to run over
is_employee_in_org(loaded, lookups, memberships, org_name) ==
    IF ~loaded \/ memberships = <<>> THEN [result |-> FALSE, computed |-> <<>>]
    ELSE in_org_loop(lookups, memberships, org_name, 1, <<>>)

OrgInfo(name, type) == [name |-> name, type |-> type]

\* type_to_org_info_type.get(entry.type.lower(), OrgInfoType.ORGANIZATION)
org_info_type(entry_type) ==
    CASE lower(entry_type) = "org" -> "Organization"
      [] lower(entry_type) = "pillar" -> "Pillar"
      [] lower(entry_type) = "team_group" -> "Team Group"
      [] lower(entry_type) = "team" -> "Parent Team"
      [] OTHER -> "Organization"

\* _add_hierarchy_path_items appending every entry, seen or not
RECURSIVE add_hierarchy_path_items_unseen(_, _, _, _)
add_hierarchy_path_items_unseen(orgs, seen, hierarchy_path, i) ==
    IF i > Len(hierarchy_path) THEN [orgs |-> orgs, seen |-> seen]
    ELSE LET entry == hierarchy_path[i] IN
         add_hierarchy_path_items_unseen(
             Append(orgs, OrgInfo(entry.name, org_info_type(entry.type))),
             seen \cup {entry.name}, hierarchy_path, i + 1)

\* _add_hierarchy_path_items: the loop over hierarchy_path[1:], which starts
\* at i = 2 here
RECURSIVE add_hierarchy_path_items(_, _, _, _)
add_hierarchy_path_items(orgs, seen, hierarchy_path, i) ==
    IF i > Len(hierarchy_path) THEN [orgs |-> orgs, seen |-> seen]
    ELSE LET entry == hierarchy_path[i] IN
         IF entry.name \notin seen
         THEN add_hierarchy_path_items(
                  Append(orgs, OrgInfo(entry.name, org_info_type(entry.type))),
                  seen \cup {entry.name}, hierarchy_path, i + 1)
         ELSE add_hierarchy_path_items(orgs, seen, hierarchy_path, i + 1)

\* the loop of get_user_organizations over the memberships, from the i-th on
RECURSIVE user_orgs_loop(_, _, _, _, _)
user_orgs_loop(lookups, memberships, i, orgs, seen) ==
    IF i > Len(memberships) THEN orgs
    ELSE LET membership == memberships[i] IN
         IF membership.type = "org"
         THEN IF membership.name \notin seen
              THEN user_orgs_loop(lookups, memberships, i + 1,
                                  Append(orgs, OrgInfo(membership.name, "Organization")),
                                  seen \cup {membership.name})
              ELSE user_orgs_loop(lookups, memberships, i + 1, orgs, seen)
         ELSE IF membership.type = "team"
         THEN LET own == IF membership.name \notin seen
                         THEN [orgs |-> Append(orgs, OrgInfo(membership.name, "Team")),
                               seen |-> seen \cup {membership.name}]
                         ELSE [orgs |-> orgs, seen |-> seen]
                  hierarchy_path ==
                      get_hierarchy_path(TRUE, lookups, membership.name, "team")
                  r == add_hierarchy_path_items(own.orgs, own.seen, hierarchy_path, 2)
              IN user_orgs_loop(lookups, memberships, i + 1, r.orgs, r.seen)
         ELSE user_orgs_loop(lookups, memberships, i + 1, orgs, seen)

\* get_user_organizations, memberships being membership_index.get(uid, ())
get_user_organizations(loaded, lookups, memberships) ==
    IF ~loaded \/ memberships = <<>> THEN <<>>
    ELSE user_orgs_loop(lookups, memberships, 1, <<>>, {})

\* dict iteration order of an entity map
OrderedNames == <<"a", "b">>

items(lookup, etype) ==
    LET Held(n) == n \in DOMAIN lookup
        names == SelectSeq(OrderedNames, Held)
    IN [i \in 1..Len(names) |->
            [name |-> names[i], parent |-> lookup[names[i]], etype |-> etype]]

all_entities(lookups) ==
    items(lookups.teams, "team") \o items(lookups.orgs, "org")
        \o items(lookups.pillars, "pillar") \o items(lookups.team_groups, "team_group")

\* children_map built from the teams alone
children_map_teams_only(lookups, name) ==
    LET NamesIt(e) == e.parent # NoParent /\ e.parent.name = name
    IN SelectSeq(items(lookups.teams, "team"), NamesIt)

\* children_map.get(name, []): the entities whose parent is called name, in
\* the order of all_entities
children_map(lookups, name) ==
    LET NamesIt(e) == e.parent # NoParent /\ e.parent.name = name
    IN SelectSeq(all_entities(lookups), NamesIt)

HierarchyNode(name, type, children) ==
    [name |-> name, type |-> type, children |-> children]

\* get_descendants_tree returning None
NoTree == [name |-> "", type |-> "none", children |-> <<>>]

\* build_node with a visited set of its own for every path from the root
RECURSIVE build_node_per_path(_, _, _, _)
RECURSIVE build_children_per_path(_, _, _, _, _)
build_node_per_path(lookups, name, type, visited) ==
    IF name \in visited
    THEN [node |-> HierarchyNode(name, type, <<>>), visited |-> visited]
    ELSE LET r == build_children_per_path(lookups, children_map(lookups, name), 1,
                                          visited \cup {name}, <<>>)
         IN [node |-> HierarchyNode(name, type, r.nodes), visited |-> visited]

build_children_per_path(lookups, children, i, visited, nodes) ==
    IF i > Len(children) THEN [nodes |-> nodes, visited |-> visited]
    ELSE LET r == build_node_per_path(lookups, children[i].name, children[i].etype,
                                      visited)
         IN build_children_per_path(lookups, children, i + 1, visited,
                                    Append(nodes, r.node))

\* build_node and the generator over its children.  The set visited is one
\* object shared by every call, so each call hands the set it leaves behind
\* to the call that runs next.
RECURSIVE build_node(_, _, _, _)
RECURSIVE build_children(_, _, _, _, _)
build_node(lookups, name, type, visited) ==
    IF name \in visited
    THEN [node |-> HierarchyNode(name, type, <<>>), visited |-> visited]
    ELSE LET r == build_children(lookups, children_map(lookups, name), 1,
                                 visited \cup {name}, <<>>)
         IN [node |-> HierarchyNode(name, type, r.nodes), visited |-> r.visited]

build_children(lookups, children, i, visited, nodes) ==
    IF i > Len(children) THEN [nodes |-> nodes, visited |-> visited]
    ELSE LET r == build_node(lookups, children[i].name, children[i].etype, visited)
         IN build_children(lookups, children, i + 1, r.visited, Append(nodes, r.node))

get_descendants_tree(loaded, lookups, entity_name) ==
    IF ~loaded THEN NoTree
    ELSE LET entity_type == get_entity_type(loaded, lookups, entity_name) IN
         IF entity_type = "" THEN NoTree
         ELSE build_node(lookups, entity_name, entity_type, {}).node

(***************************************************************************)
(* The same three queries as AsyncService writes them.                     *)
(***************************************************************************)
\* AsyncService._get_entity_by_type: type_to_lookup.get(entity_type.lower()),
\* then "if not lookup: return None", which an unknown kind (None) and an
\* empty map both take, then lookup.get(entity_name)
async_get_entity_by_type(loaded, lookups, entity_name, entity_type) ==
    LET key == lower(entity_type)
        known == key \in {"team", "org", "pillar", "team_group"}
        lookup == CASE key = "team" -> lookups.teams
                    [] key = "org" -> lookups.orgs
                    [] key = "pillar" -> lookups.pillars
                    [] key = "team_group" -> lookups.team_groups
                    [] OTHER -> NoEntities
    IN IF ~loaded THEN NoEntity
       ELSE IF ~known \/ DOMAIN lookup = {} THEN NoEntity
       ELSE IF entity_name \in DOMAIN lookup
            THEN [found |-> TRUE, parent |-> lookup[entity_name]]
            ELSE NoEntity

\* the while loop of AsyncService._get_hierarchy_path
RECURSIVE async_hierarchy_walk(_, _, _, _)
async_hierarchy_walk(lookups, current, path, visited) ==
    IF ~current.found \/ current.parent = NoParent THEN path
    ELSE LET parent == current.parent IN
         IF parent.name \in visited THEN path
         ELSE async_hierarchy_walk(lookups,
                  async_get_entity_by_type(TRUE, lookups, parent.name, parent.type),
                  Append(path, HierarchyPathEntry(parent.name, parent.type)),
                  visited \cup {parent.name})

async_get_hierarchy_path(loaded, lookups, entity_name, entity_type) ==
    IF ~loaded THEN <<>>
    ELSE LET entity == async_get_entity_by_type(loaded, lookups, entity_name, entity_type) IN
         IF ~entity.found THEN <<>>
         ELSE async_hierarchy_walk(lookups, entity,
                                   <<HierarchyPathEntry(entity_name, entity_type)>>,
                                   {entity_name})

\* the loop of AsyncService.is_employee_in_org
RECURSIVE async_in_org_loop(_, _, _, _)
async_in_org_loop(lookups, memberships, org_name, i) ==
    IF i > Len(memberships) THEN FALSE
    ELSE LET membership == memberships[i] IN
         IF membership.type = "org" /\ membership.name = org_name THEN TRUE
         ELSE IF membership.type = "team"
         THEN LET hierarchy_path ==
                      async_get_hierarchy_path(TRUE, lookups, membership.name, "team")
              IN IF \E j \in 1..Len(hierarchy_path) :
                       /\ hierarchy_path[j].type = "org"
                       /\ hierarchy_path[j].name = org_name
                 THEN TRUE
                 ELSE async_in_org_loop(lookups, memberships, org_name, i + 1)
         ELSE async_in_org_loop(lookups, memberships, org_name, i + 1)

\* AsyncService.is_employee_in_org: only "self._data is None" is answered
\* before the loop
async_is_employee_in_org(loaded, lookups, memberships, org_name) ==
    IF ~loaded THEN FALSE
    ELSE async_in_org_loop(lookups, memberships, org_name, 1)

\* AsyncService.get_descendants_tree: the kind is found by a loop over the
\* four maps that stops at the first one holding the name; children_map and
\* build_node are written as in Service
async_get_descendants_tree(loaded, lookups, entity_name) ==
    IF ~loaded THEN NoTree
    ELSE LET maps == <<[type_name |-> "team", lookup |-> lookups.teams],
                       [type_name |-> "org", lookup |-> lookups.orgs],
                       [type_name |-> "pillar", lookup |-> lookups.pillars],
                       [type_name |-> "team_group", lookup |-> lookups.team_groups]>>
             holding == {i \in 1..4 : entity_name \in DOMAIN maps[i].lookup}
             entity_type ==
                 IF holding = {} THEN ""
                 ELSE maps[CHOOSE i \in holding : \A j \in holding : i <= j].type_name
         IN IF entity_type = "" THEN NoTree
            ELSE build_node(lookups, entity_name, entity_type, {}).node

(***************************************************************************)
(* State of one service instance, of the object it watches and of the      *)
(* threads (Service) or event-loop tasks (AsyncService) working on it.     *)
(***************************************************************************)
VARIABLES
    impl,             \* which class was constructed: "Service" or "AsyncService"
    data,             \* self._data
    version,          \* self._version
    clock,            \* the reading datetime.now() returns next
    watcher_running,  \* self._watcher_running
    stop_event,       \* Service._stop_event
    watcher_task,     \* AsyncService._watcher_task: "None" or "task"
    watcher_source,   \* AsyncService._watcher_source: "None" or "source"
    blob,             \* the watched object: its content and generation
    pc,               \* position of every thread or task
    op,               \* the call the caller is in, or made last
    res,              \* how the last call or reload of a thread ended
    raw,              \* the payload a load has fetched and not yet installed
    calls,            \* invocations of the download made by the load in progress
    fetch_errors,     \* how many of those invocations raised
    last_generation,  \* the generation each polling loop saw last
    watch_state,      \* per polling loop: was stop_watcher called since it began
    query,            \* arguments and intermediate uid of the Slack query
    ops,              \* calls made so far
    max_retries,      \* self.max_retries of the data source
    retry,            \* a call of the retry helper: its arguments and result
    hier,             \* a hierarchy query: the entity maps, the call, its result
    guard,            \* self._lock: its owner, the install in progress, the readers
    source,           \* the data source: what it defines, how often stop() ran
    gens,             \* object generation of the content each load fetched, and of the stored one
    starters          \* tasks calling start_data_source_watcher side by side

vars == <<impl, data, version, clock, watcher_running, stop_event, watcher_task,
          watcher_source, blob, pc, op, res, raw, calls, fetch_errors,
          last_generation, watch_state, query, ops, max_retries, retry, hier, guard,
          source, gens, starters>>

LoadPcs == {"fetch", "decode"}

NoQuery == [slack |-> "", team |-> "", uid |-> ""]

NoResult == [ok |-> FALSE, calls |-> 0, waits |-> <<>>, attempts_in_message |-> 0,
             last_error |-> 0]

NoRetry == [phase |-> "none", twin |-> "", n |-> 0, max_retries |-> 0,
            initial_delay |-> 0, backoff |-> 0, result |-> NoResult]

NoHier == [loaded |-> FALSE, lookups |-> NoLookups, call |-> "none",
           name |-> "", kind |-> "", path |-> <<>>, tree |-> NoTree,
           memberships |-> <<>>, org_name |-> "", result |-> FALSE, computed |-> <<>>,
           orgs |-> <<>>]

\* the threads (Service) or tasks (AsyncService) that call query methods
Readers == {"r1", "r2"}

NoReader == [pc |-> "idle", call |-> "none", email |-> "", it |-> <<>>, pos |-> 0,
             result |-> "none", version |-> DefaultVersion]

\* the tasks that call start_data_source_watcher in the same event loop
Starters == {"s1", "s2"}
NoStarters == [c \in Starters |-> [pc |-> "idle", res |-> "none"]]

\* no load has fetched anything, the store holds nothing
NoGens == [fetched |-> [t \in Threads |-> 0], installed |-> 0]

\* nobody holds the lock, no install is under way, no reader is in a call
NoGuard == [owner |-> "free", swap |-> "idle", fetched |-> NoPayload,
            org_data |-> NoData, swaps |-> 0,
            reader |-> [r \in Readers |-> NoReader]]

\* the GCS sources define stop_watching but no stop(); their watch starts
\* the polling loop and returns
GCSSource == [has_stop |-> FALSE, stop_raises |-> FALSE, watch |-> "spawns",
              stop_calls |-> 0]

ServiceInit ==
    /\ impl \in {"Service", "AsyncService"}
    /\ data = NoData
    /\ version = DefaultVersion
    /\ clock = 1
    /\ watcher_running = FALSE
    /\ stop_event = FALSE
    /\ watcher_task = "None"
    /\ watcher_source = "None"
    /\ blob \in [content : Payloads, generation : {1}]
    /\ pc = [t \in Threads |-> IF t = Main THEN "idle" ELSE "off"]
    /\ op = "none"
    /\ res = [t \in Threads |-> "none"]
    /\ raw = [t \in Threads |-> NoPayload]
    /\ calls = [t \in Threads |-> 0]
    /\ fetch_errors = [t \in Threads |-> 0]
    /\ last_generation = [p \in Pollers |-> 0]
    /\ watch_state = [p \in Pollers |-> "none"]
    /\ query = NoQuery
    /\ ops = 0

\* The lifecycle is explored with a source that is configured without
\* retries; SpecLoad explores the retry budgets.
Init ==
    /\ ServiceInit
    /\ max_retries = 0
    /\ retry = NoRetry
    /\ hier = NoHier
    /\ guard = NoGuard
    /\ source = GCSSource
    /\ gens = NoGens
    /\ starters = NoStarters

DEFAULT_RETRY_DELAY == 1
DEFAULT_RETRY_BACKOFF == 2

\* source.load() of the GCS sources: the download wrapped in the retry helper
source_load(n) ==
    IF impl = "Service"
    THEN retry_with_backoff(n, max_retries, DEFAULT_RETRY_DELAY, DEFAULT_RETRY_BACKOFF)
    ELSE async_retry_with_backoff(n, max_retries, DEFAULT_RETRY_DELAY, DEFAULT_RETRY_BACKOFF)

\* The stage at which load_from_data_source rejects a payload, or "ok".
\* Service validates the parsed data; AsyncService has no validation step.
load_stage(variant, payload) ==
    LET j == json_load(payload)
        p == parse_data(j.raw)
    IN IF ~j.ok THEN "json"
       ELSE IF ~p.ok THEN "parse"
       ELSE IF variant = "Service" /\ ~validate_data(p.data) THEN "validate"
       ELSE "ok"

\* The DataLoadError load_from_data_source raises, by its message
LoadError(stage) ==
    CASE stage = "load" -> "DataLoadError: failed to load from data source"
      [] stage = "json" -> "DataLoadError: failed to parse JSON"
      [] stage = "parse" -> "DataLoadError: failed to parse data structure"
      [] stage = "validate" -> "DataLoadError: invalid data"

DataLoadErrors == {LoadError(st) : st \in {"load", "json", "parse", "validate"}}

\* with self._lock: self._data = org_data; self._version = DataVersion(...)
Replace(d) ==
    /\ data' = d
    /\ version' = DataVersion(clock, d)
    /\ clock' = clock + 1

\* the load of thread t ends without an assignment / with its assignment: the
\* store then holds the content that load had fetched
GensDropped(t) == [gens EXCEPT !.fetched[t] = 0]
GensStored(t) == [gens EXCEPT !.fetched[t] = 0, !.installed = gens.fetched[t]]

FreePoller == CHOOSE p \in Pollers : pc[p] = "off" /\ \A q \in Pollers : pc[q] = "off" => p <= q

\* LoadEnds with the polling loop ended by a failed reload
LoadEndsLoopDies(t, outcome) ==
    LET start_ok == t = Main /\ op = "start" /\ outcome = "ok"
        start_failed == t = Main /\ op = "start" /\ outcome # "ok"
    IN
    /\ pc' = [pc EXCEPT
                ![t] = IF t \in Pollers THEN (IF outcome = "ok" THEN "sleep" ELSE "off")
                       ELSE IF start_ok /\ impl = "Service" THEN "watch"
                       ELSE "idle",
                ![RunWatcher] = IF start_ok /\ impl = "AsyncService" THEN "new" ELSE @]
    /\ res' = [res EXCEPT ![t] = IF start_ok /\ impl = "Service" THEN "pending" ELSE outcome]
    /\ raw' = [raw EXCEPT ![t] = NoPayload]
    /\ calls' = [calls EXCEPT ![t] = 0]
    /\ fetch_errors' = [fetch_errors EXCEPT ![t] = 0]
    /\ watcher_running' =
          IF start_failed /\ impl = "Service" THEN FALSE
          ELSE IF start_ok /\ impl = "AsyncService" THEN TRUE
          ELSE watcher_running
    /\ watcher_source' = IF start_ok /\ impl = "AsyncService" THEN "source" ELSE watcher_source
    /\ watcher_task' = IF start_ok /\ impl = "AsyncService" THEN "task" ELSE watcher_task
    /\ watch_state' = [p \in Pollers |->
                          IF p = t /\ watch_state[p] = "stopped_midfetch"
                          THEN "stopped" ELSE watch_state[p]]

\* LoadEnds with AsyncService.start_data_source_watcher creating no task
LoadEndsNoTask(t, outcome) ==
    LET start_ok == t = Main /\ op = "start" /\ outcome = "ok"
        start_failed == t = Main /\ op = "start" /\ outcome # "ok"
    IN
    /\ pc' = [pc EXCEPT
                ![t] = IF t \in Pollers THEN "sleep"
                       ELSE IF start_ok /\ impl = "Service" THEN "watch"
                       ELSE "idle"]
    /\ res' = [res EXCEPT ![t] = IF start_ok /\ impl = "Service" THEN "pending" ELSE outcome]
    /\ raw' = [raw EXCEPT ![t] = NoPayload]
    /\ calls' = [calls EXCEPT ![t] = 0]
    /\ fetch_errors' = [fetch_errors EXCEPT ![t] = 0]
    /\ watcher_running' =
          IF start_failed /\ impl = "Service" THEN FALSE
          ELSE IF start_ok /\ impl = "AsyncService" THEN TRUE
          ELSE watcher_running
    /\ watcher_source' = IF start_ok /\ impl = "AsyncService" THEN "source" ELSE watcher_source
    /\ watcher_task' = watcher_task
    /\ watch_state' = [p \in Pollers |->
                          IF p = t /\ watch_state[p] = "stopped_midfetch"
                          THEN "stopped" ELSE watch_state[p]]

\* LoadEnds without the finally clause of Service.start_data_source_watcher
LoadEndsKeepsFlag(t, outcome) ==
    LET start_ok == t = Main /\ op = "start" /\ outcome = "ok"
        start_failed == t = Main /\ op = "start" /\ outcome # "ok"
    IN
    /\ pc' = [pc EXCEPT
                ![t] = IF t \in Pollers THEN "sleep"
                       ELSE IF start_ok /\ impl = "Service" THEN "watch"
                       ELSE "idle",
                ![RunWatcher] = IF start_ok /\ impl = "AsyncService" THEN "new" ELSE @]
    /\ res' = [res EXCEPT ![t] = IF start_ok /\ impl = "Service" THEN "pending" ELSE outcome]
    /\ raw' = [raw EXCEPT ![t] = NoPayload]
    /\ calls' = [calls EXCEPT ![t] = 0]
    /\ fetch_errors' = [fetch_errors EXCEPT ![t] = 0]
    /\ watcher_running' =
          IF start_ok /\ impl = "AsyncService" THEN TRUE
          ELSE watcher_running
    /\ watcher_source' = IF start_ok /\ impl = "AsyncService" THEN "source" ELSE watcher_source
    /\ watcher_task' = IF start_ok /\ impl = "AsyncService" THEN "task" ELSE watcher_task
    /\ watch_state' = [p \in Pollers |->
                          IF p = t /\ watch_state[p] = "stopped_midfetch"
                          THEN "stopped" ELSE watch_state[p]]

\* What follows the end of load_from_data_source in thread t: the caller of a
\* plain load gets the outcome; start_data_source_watcher goes on to register
\* the watch (Service) or to create the watcher task (AsyncService), or
\* propagates the error; the reload callback returns to its polling loop.
LoadEnds(t, outcome) ==
    LET start_ok == t = Main /\ op = "start" /\ outcome = "ok"
        start_failed == t = Main /\ op = "start" /\ outcome # "ok"
    IN
    /\ pc' = [pc EXCEPT
                ![t] = IF t \in Pollers THEN "sleep"
                       ELSE IF start_ok /\ impl = "Service" THEN "watch"
                       ELSE "idle",
                ![RunWatcher] = IF start_ok /\ impl = "AsyncService" THEN "new" ELSE @]
    /\ res' = [res EXCEPT ![t] = IF start_ok /\ impl = "Service" THEN "pending" ELSE outcome]
    /\ raw' = [raw EXCEPT ![t] = NoPayload]
    /\ calls' = [calls EXCEPT ![t] = 0]
    /\ fetch_errors' = [fetch_errors EXCEPT ![t] = 0]
    /\ watcher_running' =
          IF start_failed /\ impl = "Service" THEN FALSE
          ELSE IF start_ok /\ impl = "AsyncService" THEN TRUE
          ELSE watcher_running
    /\ watcher_source' = IF start_ok /\ impl = "AsyncService" THEN "source" ELSE watcher_source
    /\ watcher_task' = IF start_ok /\ impl = "AsyncService" THEN "task" ELSE watcher_task
    /\ watch_state' = [p \in Pollers |->
                          IF p = t /\ watch_state[p] = "stopped_midfetch"
                          THEN "stopped" ELSE watch_state[p]]

(***************************************************************************)
(* load_from_data_source, step by step.                                    *)
(***************************************************************************)
CanCall == pc[Main] = "idle" /\ ops < MaxOps

LoadCall ==
    /\ CanCall
    /\ op' = "load"
    /\ ops' = ops + 1
    /\ pc' = [pc EXCEPT ![Main] = "fetch"]
    /\ res' = [res EXCEPT ![Main] = "pending"]
    /\ UNCHANGED <<impl, source, gens, starters, max_retries, retry, hier, guard, data, version, clock, watcher_running, stop_event, watcher_task,
                   watcher_source, blob, raw, calls, fetch_errors, last_generation,
                   watch_state, query>>

\* reader = source.load(): the download fails n times in a row, then returns
\* the content the object holds now
Fetch(t) ==
    /\ pc[t] = "fetch"
    /\ \E n \in 0..(max_retries + 1) :
         LET r == source_load(n) IN
         IF r.ok
         THEN /\ raw' = [raw EXCEPT ![t] = blob.content]
              /\ gens' = [gens EXCEPT !.fetched[t] = blob.generation]
              /\ calls' = [calls EXCEPT ![t] = @ + r.calls]
              /\ fetch_errors' = [fetch_errors EXCEPT ![t] = @ + n]
              /\ pc' = [pc EXCEPT ![t] = "decode"]
              /\ UNCHANGED <<res, watcher_running, watcher_source, watcher_task, watch_state>>
         ELSE /\ LoadEnds(t, LoadError("load"))
              /\ gens' = [gens EXCEPT !.fetched[t] = 0]
    /\ UNCHANGED <<impl, starters, source, max_retries, retry, hier, guard, data, version, clock, stop_event, blob, op, last_generation,
                   query, ops>>

\* Decode with the fetch retried when the payload is rejected
DecodeRetriesFetch(t) ==
    /\ pc[t] = "decode"
    /\ IF load_stage(impl, raw[t]) # "ok"
       THEN IF calls[t] <= max_retries
            THEN /\ pc' = [pc EXCEPT ![t] = "fetch"]
                 /\ UNCHANGED <<data, version, clock, res, raw, calls, fetch_errors, gens,
                                watcher_running, watcher_source, watcher_task, watch_state>>
            ELSE /\ LoadEnds(t, LoadError(load_stage(impl, raw[t])))
                 /\ gens' = GensDropped(t)
                 /\ UNCHANGED <<data, version, clock>>
       ELSE /\ Replace(parse_data(raw[t]).data)
            /\ gens' = GensStored(t)
            /\ LoadEnds(t, "ok")
    /\ UNCHANGED <<impl, starters, source, max_retries, retry, hier, guard, stop_event, blob, op, last_generation, query, ops>>

\* Decode with the assignment made before the payload is checked
DecodeAssignsFirst(t) ==
    /\ pc[t] = "decode"
    /\ Replace(parse_data(raw[t]).data)
    /\ gens' = GensStored(t)
    /\ IF load_stage(impl, raw[t]) # "ok"
       THEN LoadEnds(t, LoadError(load_stage(impl, raw[t])))
       ELSE LoadEnds(t, "ok")
    /\ UNCHANGED <<impl, starters, source, max_retries, retry, hier, guard, stop_event, blob, op, last_generation, query, ops>>

\* Decode with the version reset by a load that fails
DecodeClearsVersionOnFailure(t) ==
    /\ pc[t] = "decode"
    /\ IF load_stage(impl, raw[t]) # "ok"
       THEN /\ LoadEnds(t, LoadError(load_stage(impl, raw[t])))
            /\ gens' = GensDropped(t)
            /\ version' = DefaultVersion
            /\ UNCHANGED <<data, clock>>
       ELSE /\ Replace(parse_data(raw[t]).data)
            /\ gens' = GensStored(t)
            /\ LoadEnds(t, "ok")
    /\ UNCHANGED <<impl, starters, source, max_retries, retry, hier, guard, stop_event, blob, op, last_generation, query, ops>>

\* Decode with the snapshot dropped by a load that fails
DecodeDropsSnapshotOnFailure(t) ==
    /\ pc[t] = "decode"
    /\ IF load_stage(impl, raw[t]) # "ok"
       THEN /\ LoadEnds(t, LoadError(load_stage(impl, raw[t])))
            /\ gens' = GensDropped(t)
            /\ data' = NoData
            /\ UNCHANGED <<version, clock>>
       ELSE /\ Replace(parse_data(raw[t]).data)
            /\ gens' = GensStored(t)
            /\ LoadEnds(t, "ok")
    /\ UNCHANGED <<impl, starters, source, max_retries, retry, hier, guard, stop_event, blob, op, last_generation, query, ops>>

\* json.load, parse_data and (Service) _validate_data on the fetched payload,
\* then the assignment under self._lock.  Decoding touches nothing shared, so
\* it is one step with the assignment that follows it; AsyncService runs the
\* two without suspending in any case.
Decode(t) ==
    /\ pc[t] = "decode"
    /\ IF load_stage(impl, raw[t]) # "ok"
       THEN /\ LoadEnds(t, LoadError(load_stage(impl, raw[t])))
            /\ gens' = GensDropped(t)
            /\ UNCHANGED <<data, version, clock>>
       ELSE /\ Replace(parse_data(raw[t]).data)
            /\ gens' = GensStored(t)
            /\ LoadEnds(t, "ok")
    /\ UNCHANGED <<impl, starters, source, max_retries, retry, hier, guard, stop_event, blob, op, last_generation, query, ops>>

(***************************************************************************)
(* start_data_source_watcher and stop_watcher.                             *)
(***************************************************************************)
\* The check of _watcher_running, then (Service) setting the flag and
\* clearing the stop event, then the initial load begins.
StartCall ==
    /\ CanCall
    /\ op' = "start"
    /\ ops' = ops + 1
    /\ IF watcher_running
       THEN /\ res' = [res EXCEPT ![Main] = "RuntimeError"]
            /\ UNCHANGED <<pc, watcher_running, stop_event>>
       ELSE /\ \E p \in Pollers : pc[p] = "off"
            /\ res' = [res EXCEPT ![Main] = "pending"]
            /\ pc' = [pc EXCEPT ![Main] = "fetch"]
            /\ IF impl = "Service"
               THEN watcher_running' = TRUE /\ stop_event' = FALSE
               ELSE UNCHANGED <<watcher_running, stop_event>>
    /\ UNCHANGED <<impl, source, gens, starters, max_retries, retry, hier, guard, data, version, clock, watcher_task, watcher_source, blob, raw,
                   calls, fetch_errors, last_generation, watch_state, query>>

\* WatchFails without the finally clause resetting _watcher_running
WatchFailsKeepsFlag ==
    /\ impl = "Service"
    /\ pc[Main] = "watch"
    /\ pc' = [pc EXCEPT ![Main] = "idle"]
    /\ res' = [res EXCEPT ![Main] = "GCSError"]
    /\ UNCHANGED <<impl, source, gens, starters, max_retries, retry, hier, guard, data, version, clock, stop_event, watcher_task, watcher_source,
                   blob, op, raw, calls, fetch_errors, last_generation, watch_state,
                   query, ops, watcher_running>>

\* Service: err = source.watch(callback), then the finally clause.
\* GCSDataSourceWithSDK.watch reads the generation and starts the polling
\* thread, or returns an error when that setup fails.
WatchFails ==
    /\ impl = "Service"
    /\ pc[Main] = "watch"
    /\ pc' = [pc EXCEPT ![Main] = "idle"]
    /\ res' = [res EXCEPT ![Main] = "GCSError"]
    /\ watcher_running' = FALSE
    /\ UNCHANGED <<impl, source, gens, starters, max_retries, retry, hier, guard, data, version, clock, stop_event, watcher_task, watcher_source,
                   blob, op, raw, calls, fetch_errors, last_generation, watch_state,
                   query, ops>>

WatchStarts ==
    /\ impl = "Service"
    /\ pc[Main] = "watch"
    /\ LET p == FreePoller IN
         /\ pc' = [pc EXCEPT ![Main] = "idle", ![p] = "sleep"]
         /\ last_generation' = [last_generation EXCEPT ![p] = blob.generation]
         /\ watch_state' = [watch_state EXCEPT ![p] = "active"]
    /\ res' = [res EXCEPT ![Main] = "ok"]
    /\ watcher_running' = FALSE
    /\ UNCHANGED <<impl, source, gens, starters, max_retries, retry, hier, guard, data, version, clock, stop_event, watcher_task, watcher_source,
                   blob, op, raw, calls, fetch_errors, query, ops>>

\* AsyncService: the task _run_watcher begins and awaits source.watch, which
\* (AsyncGCSDataSource) awaits the first blob.reload in a worker thread
RunWatcherStarts ==
    /\ impl = "AsyncService"
    /\ pc[RunWatcher] = "new"
    /\ pc[Main] # "stopwait"
    /\ pc' = [pc EXCEPT ![RunWatcher] = "setup"]
    /\ UNCHANGED <<impl, source, gens, starters, max_retries, retry, hier, guard, data, version, clock, watcher_running, stop_event, watcher_task,
                   watcher_source, blob, op, res, raw, calls, fetch_errors,
                   last_generation, watch_state, query, ops>>

\* the finally clause of _run_watcher
RunWatcherFinally ==
    /\ watcher_running' = FALSE
    /\ watcher_task' = "None"
    /\ watcher_source' = "None"

\* source.watch returns an error (logged), _run_watcher ends
RunWatcherSetupFails ==
    /\ impl = "AsyncService"
    /\ pc[RunWatcher] = "setup"
    /\ pc[Main] # "stopwait"
    /\ pc' = [pc EXCEPT ![RunWatcher] = "off"]
    /\ res' = [res EXCEPT ![RunWatcher] = "GCSError"]
    /\ RunWatcherFinally
    /\ UNCHANGED <<impl, source, gens, starters, max_retries, retry, hier, guard, data, version, clock, stop_event, blob, op, raw, calls,
                   fetch_errors, last_generation, watch_state, query, ops>>

\* source.watch creates the polling task with asyncio.create_task and
\* returns None, so _run_watcher ends while the polling task lives on
RunWatcherSetupDone ==
    /\ impl = "AsyncService"
    /\ pc[RunWatcher] = "setup"
    /\ pc[Main] # "stopwait"
    /\ LET p == FreePoller IN
         /\ pc' = [pc EXCEPT ![RunWatcher] = "off", ![p] = "sleep"]
         /\ last_generation' = [last_generation EXCEPT ![p] = blob.generation]
         /\ watch_state' = [watch_state EXCEPT ![p] = "active"]
    /\ res' = [res EXCEPT ![RunWatcher] = "ok"]
    /\ RunWatcherFinally
    /\ UNCHANGED <<impl, source, gens, starters, max_retries, retry, hier, guard, data, version, clock, stop_event, blob, op, raw, calls,
                   fetch_errors, query, ops>>

\* the polling loops that exist when stop_watcher is called belong to the
\* stopped watch; one whose reload is in its fetch step is marked as such
MarkStopped ==
    [p \in Pollers |->
        IF pc[p] = "off" THEN watch_state[p]
        ELSE IF pc[p] = "fetch" THEN "stopped_midfetch"
        ELSE IF pc[p] = "decode" /\ watch_state[p] = "stopped_midfetch" THEN "stopped_midfetch"
        ELSE "stopped"]

\* a stop_watcher that never signals the source
StopSourceNotCalled == source

\* AsyncService.stop_watcher begins with the source it still holds: if that
\* source defines stop() it is called, and what stop() raises is swallowed
StopSource ==
    IF impl = "AsyncService" /\ watcher_source # "None" /\ source.has_stop
    THEN [source EXCEPT !.stop_calls = @ + 1]
    ELSE source

\* stop_watcher refusing to run when the service is not watching
StopCallRaisesWhenIdle ==
    /\ CanCall
    /\ op' = "stop"
    /\ ops' = ops + 1
    /\ watch_state' = MarkStopped
    /\ IF ~watcher_running
       THEN /\ res' = [res EXCEPT ![Main] = "RuntimeError"]
            /\ UNCHANGED <<pc, watcher_running, watcher_task, watcher_source, stop_event>>
       ELSE IF impl = "Service"
       THEN /\ stop_event' = TRUE
            /\ watcher_running' = FALSE
            /\ res' = [res EXCEPT ![Main] = "ok"]
            /\ UNCHANGED <<pc, watcher_task, watcher_source>>
       ELSE /\ pc' = [pc EXCEPT ![Main] = "stopwait"]
            /\ res' = [res EXCEPT ![Main] = "pending"]
            /\ UNCHANGED <<watcher_running, watcher_task, watcher_source, stop_event>>
    /\ source' = StopSource
    /\ UNCHANGED <<impl, starters, gens, max_retries, retry, hier, guard, data, version, clock, blob, raw, calls, fetch_errors,
                   last_generation, query>>

\* Service.stop_watcher: set the stop event, clear the flag.
\* AsyncService.stop_watcher: stop() of the held source if it has one; then
\* with no watcher task it clears the fields and returns, else it cancels
\* the task and awaits it.
StopCall ==
    /\ CanCall
    /\ op' = "stop"
    /\ ops' = ops + 1
    /\ watch_state' = MarkStopped
    /\ IF impl = "Service"
       THEN /\ stop_event' = TRUE
            /\ watcher_running' = FALSE
            /\ res' = [res EXCEPT ![Main] = "ok"]
            /\ UNCHANGED <<pc, watcher_task, watcher_source>>
       ELSE IF watcher_task = "None"
            THEN /\ watcher_running' = FALSE
                 /\ watcher_source' = "None"
                 /\ res' = [res EXCEPT ![Main] = "ok"]
                 /\ UNCHANGED <<pc, watcher_task, stop_event>>
            ELSE /\ pc' = [pc EXCEPT ![Main] = "stopwait"]
                 /\ res' = [res EXCEPT ![Main] = "pending"]
                 /\ UNCHANGED <<watcher_running, watcher_task, watcher_source, stop_event>>
    /\ source' = StopSource
    /\ UNCHANGED <<impl, starters, gens, max_retries, retry, hier, guard, data, version, clock, blob, raw, calls, fetch_errors,
                   last_generation, query>>

\* the cancelled _run_watcher: a task that never started just ends; one that
\* awaits inside source.watch gets CancelledError and runs its finally clause
RunWatcherCancelled ==
    /\ impl = "AsyncService"
    /\ pc[Main] = "stopwait"
    /\ pc[RunWatcher] \in {"new", "setup"}
    /\ pc' = [pc EXCEPT ![RunWatcher] = "off"]
    /\ res' = [res EXCEPT ![RunWatcher] = "CancelledError"]
    /\ IF pc[RunWatcher] = "setup"
       THEN RunWatcherFinally
       ELSE UNCHANGED <<watcher_running, watcher_task, watcher_source>>
    /\ UNCHANGED <<impl, source, gens, starters, max_retries, retry, hier, guard, data, version, clock, stop_event, blob, op, raw, calls,
                   fetch_errors, last_generation, watch_state, query, ops>>

\* stop_watcher resumes after the awaited task has ended
StopReturn ==
    /\ impl = "AsyncService"
    /\ pc[Main] = "stopwait"
    /\ pc[RunWatcher] = "off"
    /\ pc' = [pc EXCEPT ![Main] = "idle"]
    /\ res' = [res EXCEPT ![Main] = "ok"]
    /\ watcher_task' = "None"
    /\ watcher_running' = FALSE
    /\ watcher_source' = "None"
    /\ UNCHANGED <<impl, source, gens, starters, max_retries, retry, hier, guard, data, version, clock, stop_event, blob, op, raw, calls,
                   fetch_errors, last_generation, watch_state, query, ops>>

(***************************************************************************)
(* The polling loop of the GCS sources (watcher), and the object changing. *)
(***************************************************************************)
\* Poll with the new generation never recorded
PollKeepsGeneration(p) ==
    /\ pc[p] = "sleep"
    /\ blob.generation # last_generation[p]
    /\ IF impl = "Service" /\ stop_event
       THEN UNCHANGED <<pc, res>>
       ELSE /\ pc' = [pc EXCEPT ![p] = "fetch"]
            /\ UNCHANGED res
    /\ UNCHANGED <<impl, source, gens, starters, max_retries, retry, hier, guard, data, version, clock, watcher_running, stop_event, watcher_task,
                   watcher_source, blob, op, raw, calls, fetch_errors, watch_state,
                   last_generation, query, ops>>

\* After the sleep: blob.reload(), and when the generation differs from the
\* recorded one it is recorded and the reload callback is called.  The
\* callback of Service returns at once when the stop event is set; otherwise
\* (and always in AsyncService) it enters load_from_data_source.  A poll that
\* sees no change, or whose blob.reload() raises, changes nothing.
Poll(p) ==
    /\ pc[p] = "sleep"
    /\ blob.generation # last_generation[p]
    /\ last_generation' = [last_generation EXCEPT ![p] = blob.generation]
    /\ IF impl = "Service" /\ stop_event
       THEN UNCHANGED <<pc, res>>
       ELSE /\ pc' = [pc EXCEPT ![p] = "fetch"]
            /\ UNCHANGED res
    /\ UNCHANGED <<impl, source, gens, starters, max_retries, retry, hier, guard, data, version, clock, watcher_running, stop_event, watcher_task,
                   watcher_source, blob, op, raw, calls, fetch_errors, watch_state,
                   query, ops>>

\* somebody uploads new content: the generation of the object grows
UpdateBlob ==
    /\ blob.generation < MaxGen
    /\ \E c \in Payloads : blob' = [content |-> c, generation |-> blob.generation + 1]
    /\ UNCHANGED <<impl, source, gens, starters, max_retries, retry, hier, guard, data, version, clock, watcher_running, stop_event, watcher_task,
                   watcher_source, pc, op, res, raw, calls, fetch_errors,
                   last_generation, watch_state, query, ops>>

(***************************************************************************)
(* is_slack_user_in_team.                                                  *)
(***************************************************************************)
\* Service: _get_uid_from_slack_id reads self._data without the lock, then
\* is_employee_in_team takes the lock and reads self._data again.
\* AsyncService: both lookups run without a suspension in between.
QueryCall ==
    /\ CanCall
    /\ op' = "query"
    /\ ops' = ops + 1
    /\ \E s \in SlackIds, team \in TeamNames :
         LET uid == get_uid_from_slack_id(data, s) IN
         /\ query' = [slack |-> s, team |-> team, uid |-> uid]
         /\ IF uid = ""
            THEN /\ res' = [res EXCEPT ![Main] = "False"]
                 /\ UNCHANGED pc
            ELSE IF impl = "Service"
                 THEN /\ pc' = [pc EXCEPT ![Main] = "q2"]
                      /\ res' = [res EXCEPT ![Main] = "pending"]
                 ELSE /\ res' = [res EXCEPT ![Main] = Bool(is_employee_in_team(data, uid, team))]
                      /\ UNCHANGED pc
    /\ UNCHANGED <<impl, source, gens, starters, max_retries, retry, hier, guard, data, version, clock, watcher_running, stop_event, watcher_task,
                   watcher_source, blob, raw, calls, fetch_errors, last_generation,
                   watch_state>>

QueryFinish ==
    /\ impl = "Service"
    /\ pc[Main] = "q2"
    /\ pc' = [pc EXCEPT ![Main] = "idle"]
    /\ res' = [res EXCEPT ![Main] = Bool(is_employee_in_team(data, query.uid, query.team))]
    /\ UNCHANGED <<impl, source, gens, starters, max_retries, retry, hier, guard, data, version, clock, watcher_running, stop_event, watcher_task,
                   watcher_source, blob, op, raw, calls, fetch_errors, last_generation,
                   watch_state, query, ops>>

Next ==
    \/ LoadCall
    \/ StartCall
    \/ StopCall
    \/ QueryCall
    \/ QueryFinish
    \/ \E t \in {Main} \cup Pollers : Fetch(t)
    \/ \E t \in {Main} \cup Pollers : Decode(t)
    \/ WatchFails
    \/ WatchStarts
    \/ RunWatcherStarts
    \/ RunWatcherSetupFails
    \/ RunWatcherSetupDone
    \/ RunWatcherCancelled
    \/ StopReturn
    \/ \E p \in Pollers : Poll(p)
    \/ UpdateBlob

Spec == Init /\ [][Next]_vars

(***************************************************************************)
(* Loads alone, on sources of every retry budget.                          *)
(***************************************************************************)
InitLoad ==
    /\ ServiceInit
    /\ max_retries \in 0..MaxBudget
    /\ retry = NoRetry
    /\ hier = NoHier
    /\ guard = NoGuard
    /\ source = GCSSource
    /\ gens = NoGens
    /\ starters = NoStarters

NextLoad ==
    \/ LoadCall
    \/ Fetch(Main)
    \/ Decode(Main)
    \/ UpdateBlob

SpecLoad == InitLoad /\ [][NextLoad]_vars

(***************************************************************************)
(* The retry helpers alone, called on an operation that fails n times.     *)
(***************************************************************************)
InitRetry ==
    /\ ServiceInit
    /\ max_retries = 0
    /\ retry \in [phase : {"called"}, twin : {"sync", "async"}, n : 0..MaxN,
                  max_retries : 0..MaxBudget, initial_delay : 1..MaxDelay,
                  backoff : 1..MaxBackoff, result : {NoResult}]
    /\ hier = NoHier
    /\ guard = NoGuard
    /\ source = GCSSource
    /\ gens = NoGens
    /\ starters = NoStarters

RetryReturns ==
    /\ retry.phase = "called"
    /\ retry' = [retry EXCEPT
                   !.phase = "returned",
                   !.result = IF retry.twin = "sync"
                              THEN retry_with_backoff(retry.n, retry.max_retries,
                                                      retry.initial_delay, retry.backoff)
                              ELSE async_retry_with_backoff(retry.n, retry.max_retries,
                                                            retry.initial_delay, retry.backoff)]
    /\ UNCHANGED <<impl, source, gens, starters, data, version, clock, watcher_running, stop_event, watcher_task,
                   watcher_source, blob, pc, op, res, raw, calls, fetch_errors,
                   last_generation, watch_state, query, ops, max_retries, hier, guard>>

NextRetry == RetryReturns

SpecRetry == InitRetry /\ [][NextRetry]_vars

(***************************************************************************)
(* The hierarchy queries alone, on every entity graph.                     *)
(***************************************************************************)
InitHierarchy ==
    /\ ServiceInit
    /\ blob.content = GoodA
    /\ max_retries = 0
    /\ retry = NoRetry
    /\ hier \in [loaded : {TRUE}, lookups : LookupsSet, call : {"none"},
                 name : {""}, kind : {""}, path : {<<>>}, tree : {NoTree},
                 memberships : {<<>>}, org_name : {""}, result : {FALSE},
                 computed : {<<>>}, orgs : {<<>>}]
                    \cup {NoHier}
    /\ guard = NoGuard
    /\ source = GCSSource
    /\ gens = NoGens
    /\ starters = NoStarters

ServiceUnchanged ==
    UNCHANGED <<impl, source, gens, starters, data, version, clock, watcher_running, stop_event, watcher_task,
                watcher_source, blob, pc, op, res, raw, calls, fetch_errors,
                last_generation, watch_state, query, ops, max_retries, retry, guard>>

HierarchyPathCall ==
    /\ hier.call = "none"
    /\ \E n \in ParentNames, k \in QueryKinds :
         hier' = [hier EXCEPT !.call = "get_hierarchy_path", !.name = n, !.kind = k,
                              !.path = get_hierarchy_path(hier.loaded, hier.lookups, n, k)]
    /\ ServiceUnchanged

DescendantsTreeCall ==
    /\ hier.call = "none"
    /\ \E n \in ParentNames :
         hier' = [hier EXCEPT !.call = "get_descendants_tree", !.name = n,
                              !.tree = get_descendants_tree(hier.loaded, hier.lookups, n)]
    /\ ServiceUnchanged

NextHierarchy == HierarchyPathCall \/ DescendantsTreeCall

(***************************************************************************)
(* is_employee_in_org on every entity graph and membership tuple.          *)
(***************************************************************************)
MaxMemberships == 2

\* what the membership index can list for one uid
MembershipItems ==
    {MembershipInfo("a", "team"), MembershipInfo("b", "team"),
     MembershipInfo("a", "org"), MembershipInfo("z", "org")}
MembershipTuples == UNION {[1..n -> MembershipItems] : n \in 0..MaxMemberships}
OrgNames == {"a", "z"}

InOrgCall ==
    /\ hier.call = "none"
    /\ \E ms \in MembershipTuples, o \in OrgNames :
         LET r == is_employee_in_org(hier.loaded, hier.lookups, ms, o)
         IN hier' = [hier EXCEPT !.call = "is_employee_in_org", !.memberships = ms,
                                 !.org_name = o, !.result = r.result,
                                 !.computed = r.computed]
    /\ ServiceUnchanged

NextInOrg == InOrgCall

(***************************************************************************)
(* get_user_organizations on every entity graph and membership tuple.      *)
(***************************************************************************)
UserOrgsCall ==
    /\ hier.call = "none"
    /\ \E ms \in MembershipTuples :
         hier' = [hier EXCEPT !.call = "get_user_organizations", !.memberships = ms,
                              !.orgs = get_user_organizations(hier.loaded, hier.lookups, ms)]
    /\ ServiceUnchanged

NextUserOrgs == UserOrgsCall

SpecUserOrgs == InitHierarchy /\ [][NextUserOrgs]_vars

SpecInOrg == InitHierarchy /\ [][NextInOrg]_vars

SpecHierarchy == InitHierarchy /\ [][NextHierarchy]_vars

(***************************************************************************)
(* The lock around self._data and self._version: one thread installing     *)
(* snapshots and two readers, step by step.  A thread of Service can be    *)
(* preempted between any two steps; a task of AsyncService runs from one   *)
(* await to the next, and neither the guarded blocks nor get_version hold  *)
(* an await that suspends while the lock is free.                          *)
(***************************************************************************)
MaxSwaps == 2

\* employees.values() in the order of the dict
OrderedUids == <<"alice", "bob">>

values(d) ==
    LET Held(u) == u \in d.employees IN SelectSeq(OrderedUids, Held)

\* the e-mail addresses asked for; an employee's address is stood for by
\* its uid
Emails == Uids \cup {"nobody"}

ReaderCalls == {"get_version", "get_employee_by_email"}

InitGuard ==
    /\ ServiceInit
    /\ blob.content = GoodA
    /\ max_retries = 0
    /\ retry = NoRetry
    /\ hier = NoHier
    /\ guard = NoGuard
    /\ source = GCSSource
    /\ gens = NoGens
    /\ starters = NoStarters

GuardUnchanged ==
    UNCHANGED <<impl, source, gens, starters, watcher_running, stop_event, watcher_task, watcher_source, blob,
                pc, op, res, raw, calls, fetch_errors, last_generation, watch_state,
                query, ops, max_retries, retry, hier>>

\* the installing thread or a reader is inside a call
\* (an AsyncService load is suspended, not running, while it awaits
\* source.load)
SwapMidCall == guard.swap \notin {"idle", "fetching"}
\* (a reader that has not yet passed "with self._lock" / "async with
\* self._lock" of its call is not running either)
ReaderMidCall(r) == guard.reader[r].pc \notin {"idle", "wait", "inner_wait"}

SwapCanRun ==
    impl = "Service" \/ \A r \in Readers : ~ReaderMidCall(r)
ReaderCanRun(r) ==
    impl = "Service" \/ (~SwapMidCall /\ \A q \in Readers \ {r} : ~ReaderMidCall(q))

\* SwapFetch taking the lock before the load begins
SwapFetchLocked ==
    /\ guard.swap = "idle"
    /\ guard.swaps < MaxSwaps
    /\ guard.owner = "free"
    /\ SwapCanRun
    /\ guard' = [guard EXCEPT !.swap = "fetching", !.swaps = @ + 1, !.owner = "swap"]
    /\ UNCHANGED <<data, version, clock>>
    /\ GuardUnchanged

\* load_from_data_source calls (awaits) source.load()
SwapFetch ==
    /\ guard.swap = "idle"
    /\ guard.swaps < MaxSwaps
    /\ SwapCanRun
    /\ guard' = [guard EXCEPT !.swap = "fetching", !.swaps = @ + 1]
    /\ UNCHANGED <<data, version, clock>>
    /\ GuardUnchanged

\* source.load() returns a reader on the content, or raises and the load
\* ends with DataLoadError
SwapFetched ==
    /\ guard.swap = "fetching"
    /\ SwapCanRun
    /\ \/ \E payload \in Payloads :
            guard' = [guard EXCEPT !.swap = "fetched", !.fetched = payload]
       \/ guard' = [guard EXCEPT !.swap = "idle"]
    /\ UNCHANGED <<data, version, clock>>
    /\ GuardUnchanged

\* json.load, parse_data and (Service) _validate_data: org_data is ready, or
\* the load ends with DataLoadError
SwapParsed ==
    /\ guard.swap = "fetched"
    /\ SwapCanRun
    /\ guard' = IF load_stage(impl, guard.fetched) = "ok"
                THEN [guard EXCEPT !.swap = "parsed", !.fetched = NoPayload,
                                   !.org_data = parse_data(guard.fetched).data]
                ELSE [guard EXCEPT !.swap = "idle", !.fetched = NoPayload]
    /\ UNCHANGED <<data, version, clock>>
    /\ GuardUnchanged

\* SwapAcquire entering the block without taking the lock
SwapEntersUnlocked ==
    /\ guard.swap = "parsed"
    /\ SwapCanRun
    /\ guard' = [guard EXCEPT !.swap = "locked"]
    /\ UNCHANGED <<data, version, clock>>
    /\ GuardUnchanged

\* with self._lock:
SwapAcquire ==
    /\ guard.swap = "parsed"
    /\ guard.owner = "free"
    /\ SwapCanRun
    /\ guard' = [guard EXCEPT !.swap = "locked", !.owner = "swap"]
    /\ UNCHANGED <<data, version, clock>>
    /\ GuardUnchanged

\* self._data = org_data
SwapData ==
    /\ guard.swap = "locked"
    /\ SwapCanRun
    /\ data' = guard.org_data
    /\ guard' = [guard EXCEPT !.swap = "data_set"]
    /\ UNCHANGED <<version, clock>>
    /\ GuardUnchanged

\* self._version = DataVersion(load_time=datetime.now(), ...)
SwapVersion ==
    /\ guard.swap = "data_set"
    /\ SwapCanRun
    /\ version' = DataVersion(clock, guard.org_data)
    /\ clock' = clock + 1
    /\ guard' = [guard EXCEPT !.swap = "version_set"]
    /\ UNCHANGED data
    /\ GuardUnchanged

\* the end of the with block
SwapRelease ==
    /\ guard.swap = "version_set"
    /\ SwapCanRun
    /\ guard' = [guard EXCEPT !.swap = "idle", !.org_data = NoData,
                                !.owner = IF @ = "swap" THEN "free" ELSE @]
    /\ UNCHANGED <<data, version, clock>>
    /\ GuardUnchanged

\* a reader enters Service.get_version or get_employee_by_email of either
\* class: with self._lock:
ReaderAcquire(r) ==
    /\ guard.reader[r].pc = "idle"
    /\ guard.owner = "free"
    /\ ReaderCanRun(r)
    /\ \E c \in ReaderCalls, e \in Emails :
         /\ c = "get_version" => (impl = "Service" /\ e = "nobody")
         /\ guard' = [guard EXCEPT !.owner = r,
                                    !.reader[r] = [NoReader EXCEPT !.pc = "locked",
                                                                   !.call = c, !.email = e]]
    /\ UNCHANGED <<data, version, clock>>
    /\ GuardUnchanged

\* AsyncService.get_version: return self._version, without the lock
AsyncGetVersion(r) ==
    /\ impl = "AsyncService"
    /\ guard.reader[r].pc = "idle"
    /\ ReaderCanRun(r)
    /\ guard' = [guard EXCEPT !.reader[r] = [NoReader EXCEPT !.call = "get_version",
                                                              !.version = version]]
    /\ UNCHANGED <<data, version, clock>>
    /\ GuardUnchanged

\* inside the lock: get_version reads self._version; get_employee_by_email
\* tests self._data and starts the loop over employees.values()
ReaderRef(r) ==
    LET me == guard.reader[r] IN
    /\ me.pc = "locked"
    /\ ReaderCanRun(r)
    /\ guard' = [guard EXCEPT !.reader[r] =
            IF me.call = "get_version"
            THEN [me EXCEPT !.pc = "release", !.version = version]
            ELSE IF ~data.loaded \/ data.employees = {}
                 THEN [me EXCEPT !.pc = "release", !.result = "None"]
                 ELSE [me EXCEPT !.pc = "scan", !.it = values(data), !.pos = 0]]
    /\ UNCHANGED <<data, version, clock>>
    /\ GuardUnchanged

\* one turn of the loop: if emp.email.lower() == email_lower: return emp
ReaderScan(r) ==
    LET me == guard.reader[r]
        emp == me.it[me.pos + 1]
    IN
    /\ me.pc = "scan"
    /\ ReaderCanRun(r)
    /\ guard' = [guard EXCEPT !.reader[r] =
            IF emp = me.email THEN [me EXCEPT !.pc = "release", !.result = emp]
            ELSE IF me.pos + 1 = Len(me.it)
                 THEN [me EXCEPT !.pc = "release", !.result = "None"]
                 ELSE [me EXCEPT !.pos = @ + 1]]
    /\ UNCHANGED <<data, version, clock>>
    /\ GuardUnchanged

\* the return statement leaves the with block
ReaderRelease(r) ==
    /\ guard.reader[r].pc = "release"
    /\ ReaderCanRun(r)
    /\ guard' = [guard EXCEPT !.owner = IF @ = r THEN "free" ELSE @,
                                !.reader[r].pc = "idle"]
    /\ UNCHANGED <<data, version, clock>>
    /\ GuardUnchanged

NextGuard ==
    \/ SwapFetch
    \/ SwapFetched
    \/ SwapParsed
    \/ SwapAcquire
    \/ SwapData
    \/ SwapVersion
    \/ SwapRelease
    \/ \E r \in Readers : ReaderAcquire(r)
    \/ \E r \in Readers : AsyncGetVersion(r)
    \/ \E r \in Readers : ReaderRef(r)
    \/ \E r \in Readers : ReaderScan(r)
    \/ \E r \in Readers : ReaderRelease(r)

SpecGuard == InitGuard /\ [][NextGuard]_vars

(***************************************************************************)
(* is_healthy and is_ready of the four service classes of the package:     *)
(* Service (_service.py), AsyncService (_async.py) and the classes of the  *)
(* same names in service.py and async_service.py, which the package's      *)
(* __init__ exports.  Only Service of _service.py validates what it loads. *)
(***************************************************************************)
Variants == {"Service", "AsyncService", "service.Service", "async_service.AsyncService"}

is_healthy(variant, d) == d.loaded

\* _service.py, _async.py: bool(self._data.lookups.employees);
\* service.py, async_service.py: lookups is not None and indexes is not
\* None, and parse_data always builds both
is_ready(variant, d) ==
    IF ~d.loaded THEN FALSE
    ELSE IF variant \in {"Service", "AsyncService"} THEN d.employees # {}
    ELSE TRUE

InitReady ==
    /\ impl \in Variants
    /\ data = NoData
    /\ version = DefaultVersion
    /\ clock = 1
    /\ watcher_running = FALSE
    /\ stop_event = FALSE
    /\ watcher_task = "None"
    /\ watcher_source = "None"
    /\ blob = [content |-> GoodA, generation |-> 1]
    /\ pc = [t \in Threads |-> IF t = Main THEN "idle" ELSE "off"]
    /\ op = "none"
    /\ res = [t \in Threads |-> "none"]
    /\ raw = [t \in Threads |-> NoPayload]
    /\ calls = [t \in Threads |-> 0]
    /\ fetch_errors = [t \in Threads |-> 0]
    /\ last_generation = [p \in Pollers |-> 0]
    /\ watch_state = [p \in Pollers |-> "none"]
    /\ query = NoQuery
    /\ ops = 0
    /\ max_retries = 0
    /\ retry = NoRetry
    /\ hier = NoHier
    /\ guard = NoGuard
    /\ source = GCSSource
    /\ gens = NoGens
    /\ starters = NoStarters

ReadyUnchanged ==
    UNCHANGED <<impl, source, gens, starters, watcher_running, stop_event, watcher_task, watcher_source, pc,
                raw, calls, fetch_errors, last_generation, watch_state, query,
                max_retries, retry, hier, guard>>

\* a whole load_from_data_source of the content the source holds
ReadyLoad ==
    /\ ops < MaxOps
    /\ \E payload \in Payloads :
         LET stage == load_stage(impl, payload) IN
         /\ blob' = [content |-> payload, generation |-> blob.generation]
         /\ IF stage = "ok"
            THEN /\ Replace(parse_data(payload).data)
                 /\ res' = [res EXCEPT ![Main] = "ok"]
            ELSE /\ res' = [res EXCEPT ![Main] = LoadError(stage)]
                 /\ UNCHANGED <<data, version, clock>>
    /\ op' = "load"
    /\ ops' = ops + 1
    /\ ReadyUnchanged

IsReadyCall ==
    /\ op \in {"none", "load"}
    /\ op' = "is_ready"
    /\ res' = [res EXCEPT ![Main] = Bool(is_ready(impl, data))]
    /\ UNCHANGED <<data, version, clock, blob, ops>>
    /\ ReadyUnchanged

IsHealthyCall ==
    /\ op \in {"none", "load"}
    /\ op' = "is_healthy"
    /\ res' = [res EXCEPT ![Main] = Bool(is_healthy(impl, data))]
    /\ UNCHANGED <<data, version, clock, blob, ops>>
    /\ ReadyUnchanged

NextReady == ReadyLoad \/ IsReadyCall \/ IsHealthyCall

SpecReady == InitReady /\ [][NextReady]_vars

(***************************************************************************)
(* Team members and team memberships of a loaded document.  parse_data     *)
(* takes lookups.teams and indexes.membership.membership_index from the    *)
(* document as two independent sections.                                   *)
(***************************************************************************)
\* resolved_people_uid_list of a team
MemberLists == {<<>>, <<"alice">>, <<"alice", "bob">>}

\* what the membership index lists for a uid
MembershipLists ==
    {<<>>, <<TeamMembership("t1")>>, <<TeamMembership("t1"), TeamMembership("t2")>>}

MemberDocs ==
    {[wellformed |-> TRUE, data_version |-> "M",
      employees |-> Section(Uids),
      orgs |-> Section({"o1"}),
      membership_index |-> Section({<<u, ix[u]>> : u \in Uids}),
      slack_uid_to_uid |-> Section({<<"U1", "alice">>}),
      teams |-> Section({<<t, tm[t]>> : t \in TeamNames})] :
        tm \in [TeamNames -> MemberLists], ix \in [Uids -> MembershipLists]}

\* the service after one successful load of a document
InitMembers ==
    /\ impl \in {"Service", "AsyncService"}
    /\ \E doc \in MemberDocs :
         /\ load_stage(impl, doc) = "ok"
         /\ blob = [content |-> doc, generation |-> 1]
         /\ data = parse_data(doc).data
         /\ version = DataVersion(1, parse_data(doc).data)
    /\ clock = 2
    /\ watcher_running = FALSE
    /\ stop_event = FALSE
    /\ watcher_task = "None"
    /\ watcher_source = "None"
    /\ pc = [t \in Threads |-> IF t = Main THEN "idle" ELSE "off"]
    /\ op = "load"
    /\ res = [t \in Threads |-> IF t = Main THEN "ok" ELSE "none"]
    /\ raw = [t \in Threads |-> NoPayload]
    /\ calls = [t \in Threads |-> 0]
    /\ fetch_errors = [t \in Threads |-> 0]
    /\ last_generation = [p \in Pollers |-> 0]
    /\ watch_state = [p \in Pollers |-> "none"]
    /\ query = NoQuery
    /\ ops = 1
    /\ max_retries = 0
    /\ retry = NoRetry
    /\ hier = NoHier
    /\ guard = NoGuard
    /\ source = GCSSource
    /\ gens = NoGens
    /\ starters = NoStarters

\* for a member of get_team_members(team): is_employee_in_team(uid, team)
TeamMembersCall ==
    /\ op = "load"
    /\ \E team \in TeamNames :
         LET members == get_team_members(data, team) IN
         \E i \in 1..Len(members) :
             /\ query' = [slack |-> "", team |-> team, uid |-> members[i]]
             /\ res' = [res EXCEPT ![Main] =
                           Bool(is_employee_in_team(data, members[i], team))]
    /\ op' = "get_team_members"
    /\ UNCHANGED <<impl, source, gens, starters, data, version, clock, watcher_running, stop_event, watcher_task,
                   watcher_source, blob, pc, raw, calls, fetch_errors, last_generation,
                   watch_state, ops, max_retries, retry, hier, guard>>

NextMembers == TeamMembersCall

SpecMembers == InitMembers /\ [][NextMembers]_vars

(***************************************************************************)
(* Properties.                                                             *)
(***************************************************************************)
LoadThreads == {Main} \cup Pollers

\* thread t leaves load_from_data_source in this step
LoadReturns(t) == pc[t] \in LoadPcs /\ pc'[t] \notin LoadPcs

\* C1: a load that fails at any stage leaves the snapshot and the version as
\* they were: the store changes only in the last step of a load that does not
\* raise, and what is installed then is the complete parse of a well-formed
\* payload together with the version made from it.
NoPartialLoad ==
    [][(data' # data \/ version' # version) =>
          \E t \in LoadThreads :
              /\ pc[t] = "decode"
              /\ LoadReturns(t)
              /\ res'[t] \notin DataLoadErrors
              /\ json_load(raw[t]).ok
              /\ parse_data(raw[t]).ok
              /\ data' = parse_data(raw[t]).data
              /\ version' = DataVersion(clock, data')]_vars

\* a load has failed while a snapshot of an earlier load is installed
FailedLoadKeepsSnapshot ==
    /\ res[Main] \in DataLoadErrors
    /\ op = "load"
    /\ pc[Main] = "idle"
    /\ data.loaded
    /\ version # DefaultVersion

\* C9: called on an operation that fails n times and then succeeds, the retry
\* helper and its async twin return after exactly n + 1 invocations when
\* max_retries >= n, and otherwise raise GCSError after exactly
\* max_retries + 1 invocations, with that count and the error of the last
\* invocation in the message.
RetryBudgetHonoured ==
    retry.phase = "returned" =>
        LET r == retry.result IN
        IF retry.max_retries >= retry.n
        THEN r.ok /\ r.calls = retry.n + 1
        ELSE /\ ~r.ok
             /\ r.calls = retry.max_retries + 1
             /\ r.attempts_in_message = retry.max_retries + 1
             /\ r.last_error = r.calls

\* the budget ran out after at least one retry
RetryExhausted ==
    /\ retry.phase = "returned"
    /\ retry.max_retries >= 1
    /\ retry.n > retry.max_retries
    /\ ~retry.result.ok
    /\ retry.result.calls = retry.max_retries + 1

\* C10: a payload that is malformed or structurally invalid is not fetched
\* again: when the load raises for the payload, the download has been invoked
\* once plus once for every download attempt that raised, so exactly once when
\* no attempt raised, whatever the retry budget.
ParseErrorsNotRetried ==
    [][\A t \in LoadThreads :
          (pc[t] = "decode" /\ pc'[t] # "decode" /\ res'[t] \in DataLoadErrors)
              => /\ pc'[t] # "fetch"
                 /\ calls[t] = fetch_errors[t] + 1
                 /\ (fetch_errors[t] = 0 => calls[t] = 1)]_vars

\* a load on a source with a retry budget has raised for its payload
RejectedPayloadWithBudget ==
    /\ max_retries >= 1
    /\ op = "load"
    /\ pc[Main] = "idle"
    /\ res[Main] \in {LoadError("json"), LoadError("parse"), LoadError("validate")}

\* the snapshots a service can hold
Snapshots == {NoData} \cup {parse_data(c).data : c \in {c \in Payloads : json_load(c).ok}}

\* C2: every facade call is answered from one snapshot generation: the answer
\* of is_slack_user_in_team is the answer some single snapshot gives, the uid
\* and its memberships being read from the same generation.
QueryOnOneSnapshot ==
    (op = "query" /\ pc[Main] = "idle") =>
        \E d \in Snapshots :
            res[Main] = Bool(SlackUserInTeamOn(d, query.slack, query.team))

\* the polling loops stop_watcher was called on
StoppedLoops == {p \in Pollers : watch_state[p] \in {"stopped", "stopped_midfetch"}}

\* C3: once stop_watcher has returned the background loop has exited: no
\* later poll iteration, callback or replace is performed by it.
StoppedLoopIsQuiet ==
    [][\A p \in StoppedLoops :
          pc[Main] # "stopwait" =>
              /\ pc'[p] = pc[p]
              /\ last_generation'[p] = last_generation[p]
              /\ (pc[p] \in LoadPcs => data' = data /\ version' = version)]_vars

\* C4: a stop that arrives while a watcher-triggered reload is in its fetch
\* step makes the reload abandon what it fetched: it ends without a swap.
StopAbandonsFetch ==
    [][\A p \in Pollers :
          (watch_state[p] = "stopped_midfetch" /\ LoadReturns(p))
              => data' = data /\ version' = version]_vars

\* the polling loops that run and were not stopped
ActiveLoops == {p \in Pollers : pc[p] # "off" /\ watch_state[p] = "active"}

\* C5: at most one watch loop runs per service: a start while a loop runs and
\* stop_watcher was not called raises RuntimeError and starts no second loop.
AtMostOneLoop == Cardinality(ActiveLoops) <= 1

\* C6: in both variants a payload with an empty employee set is a load
\* failure: it is never installed, the store keeps what it had.
EmptyEmployeesRejected ==
    [][\A t \in LoadThreads :
          (pc[t] = "decode" /\ json_load(raw[t]).ok /\ parse_data(raw[t]).ok
              /\ parse_data(raw[t]).data.employees = {} /\ LoadReturns(t))
              => /\ res'[t] = LoadError("validate")
                 /\ data' = data
                 /\ version' = version]_vars

\* C7: a watcher-triggered reload that fails hands its error to the polling
\* loop as the callback's return value; the loop goes back to sleeping, the
\* last good snapshot stays installed, and a later change of the object lets
\* the loop attempt another reload.
ReloadFailureContained ==
    [][\A p \in Pollers :
          (LoadReturns(p) /\ res'[p] \in DataLoadErrors)
              => /\ pc'[p] = "sleep"
                 /\ data' = data
                 /\ version' = version
                 /\ data.loaded
                 /\ (impl = "Service" => stop_event' = stop_event)
                 /\ watch_state'[p] # "none"]_vars

\* the reload of a polling loop has failed: the loop sleeps until its next
\* poll and the snapshot loaded before is still installed
ReloadFailedLoopGoesOn ==
    \E p \in Pollers :
        /\ res[p] \in DataLoadErrors
        /\ pc[p] = "sleep"
        /\ watch_state[p] = "active"
        /\ data.loaded

\* C8: start_data_source_watcher loads before it registers the watch; when
\* that load fails it raises DataLoadError, never calls source.watch, starts
\* no loop and leaves the service not watching.
FailedStartStartsNothing ==
    [][/\ (op = "start" /\ LoadReturns(Main) /\ res'[Main] \in DataLoadErrors)
            => /\ pc'[Main] = "idle"
               /\ ~watcher_running'
               /\ watcher_task' = watcher_task
               /\ \A t \in Pollers \cup {RunWatcher} : pc'[t] = pc[t]
       /\ (pc'[Main] = "watch" /\ pc[Main] # "watch")
            => pc[Main] = "decode" /\ load_stage(impl, raw[Main]) = "ok"
       /\ (pc'[RunWatcher] = "new" /\ pc[RunWatcher] # "new")
            => pc[Main] = "decode" /\ load_stage(impl, raw[Main]) = "ok"]_vars

\* a start whose initial load failed has returned
StartFailedOnLoad ==
    /\ op = "start"
    /\ pc[Main] = "idle"
    /\ res[Main] \in DataLoadErrors
    /\ ~watcher_running
    /\ \A t \in Pollers \cup {RunWatcher} : pc[t] = "off"

\* the entities of the installed maps, each a name with its kind
Entities(lookups) ==
    {<<n, "team">> : n \in DOMAIN lookups.teams}
        \cup {<<n, "org">> : n \in DOMAIN lookups.orgs}
        \cup {<<n, "pillar">> : n \in DOMAIN lookups.pillars}
        \cup {<<n, "team_group">> : n \in DOMAIN lookups.team_groups}

PathReturned == hier.call = "get_hierarchy_path"
TreeReturned == hier.call = "get_descendants_tree"

\* some parent chain of the maps closes a cycle of two entities
HasTwoCycle(lookups) ==
    \E e1 \in Entities(lookups), e2 \in Entities(lookups) :
        /\ e1[1] # e2[1]
        /\ get_entity_by_type(TRUE, lookups, e1[1], e1[2]).parent
              = [name |-> e2[1], type |-> e2[2]]
        /\ get_entity_by_type(TRUE, lookups, e2[1], e2[2]).parent
              = [name |-> e1[1], type |-> e1[2]]

\* C11: on every entity graph, cyclic and dangling ones included,
\* get_hierarchy_path returns (the walk ends) and the list it returns is no
\* longer than the number of distinct entities of the snapshot plus one.
PathLengthBounded ==
    PathReturned => Len(hier.path) <= Cardinality(Entities(hier.lookups)) + 1

\* a path was computed across a cycle of two entities
PathOnCycle ==
    /\ PathReturned
    /\ HasTwoCycle(hier.lookups)
    /\ Len(hier.path) = 2
    /\ get_entity_by_type(TRUE, hier.lookups, hier.path[2].name, hier.path[2].type).parent
          = hier.path[1]

\* the entity of that name in the map a kind selects, if there is one
EntityExists(lookups, name, kind) == <<name, lower(kind)>> \in Entities(lookups)
ParentOf(lookups, name, kind) ==
    CASE lower(kind) = "team" -> lookups.teams[name]
      [] lower(kind) = "org" -> lookups.orgs[name]
      [] lower(kind) = "pillar" -> lookups.pillars[name]
      [] lower(kind) = "team_group" -> lookups.team_groups[name]

\* C12: the cycle guard: a walk that would revisit a name stops with the path
\* built so far, so no name occurs twice in a returned path; an entity that
\* is its own parent yields the path holding only itself, and a cycle
\* A -> B -> A queried at A yields [A, B].
CycleGuardStops ==
    PathReturned =>
        LET path == hier.path
            lk == hier.lookups
            n == hier.name
            k == hier.kind
        IN /\ \A i, j \in 1..Len(path) : i # j => path[i].name # path[j].name
           /\ (EntityExists(lk, n, k) /\ ParentOf(lk, n, k).name = n)
                 => path = <<HierarchyPathEntry(n, k)>>
           /\ (/\ EntityExists(lk, n, k)
               /\ ParentOf(lk, n, k) # NoParent
               /\ ParentOf(lk, n, k).name # n
               /\ EntityExists(lk, ParentOf(lk, n, k).name, ParentOf(lk, n, k).type)
               /\ ParentOf(lk, ParentOf(lk, n, k).name, ParentOf(lk, n, k).type).name = n)
                 => path = <<HierarchyPathEntry(n, k), ParentOf(lk, n, k)>>

\* a path was asked of an entity that is its own parent
PathOfSelfParent ==
    /\ PathReturned
    /\ EntityExists(hier.lookups, hier.name, hier.kind)
    /\ ParentOf(hier.lookups, hier.name, hier.kind).name = hier.name
    /\ Len(hier.path) = 1

\* C13: a parent reference that names no existing entity of its kind ends
\* the walk with the entities resolved so far: the returned path holds no
\* entry for the unresolvable parent.
DanglingParentLeftOut ==
    PathReturned =>
        \A i \in 1..Len(hier.path) :
            EntityExists(hier.lookups, hier.path[i].name, hier.path[i].type)

\* C14: get_hierarchy_path(name, kind) returns the empty list exactly when no
\* snapshot is loaded or the map of that kind holds no entity called name;
\* otherwise the first entry is (name, kind) and each later entry is the
\* parent reference of the entity the entry before it names.
PathFollowsParents ==
    PathReturned =>
        LET path == hier.path
            lk == hier.lookups
        IN /\ (path = <<>>) <=> (~hier.loaded \/ ~EntityExists(lk, hier.name, hier.kind))
           /\ path # <<>> => path[1] = HierarchyPathEntry(hier.name, hier.kind)
           /\ \A i \in 2..Len(path) :
                 /\ EntityExists(lk, path[i - 1].name, path[i - 1].type)
                 /\ ParentOf(lk, path[i - 1].name, path[i - 1].type) = path[i]

\* a path of three entries was returned
PathOfThree ==
    /\ PathReturned
    /\ Len(hier.path) = 3

\* the names of the direct children of a tree's root
ChildNames(tree) == {tree.children[i].name : i \in 1..Len(tree.children)}

\* C15: duality of the two traversals: when the path of an entity E has a
\* second entry P and get_descendants_tree(P.name) returns a tree, E's name
\* is among the direct children of the root of that tree.
PathTreeDuality ==
    (PathReturned /\ Len(hier.path) >= 2) =>
        LET tree == get_descendants_tree(hier.loaded, hier.lookups, hier.path[2].name)
        IN tree # NoTree => hier.name \in ChildNames(tree)

\* a path of two or more entries whose second entry is the root of a tree
PathWithParentTree ==
    /\ PathReturned
    /\ Len(hier.path) >= 2
    /\ get_descendants_tree(hier.loaded, hier.lookups, hier.path[2].name) # NoTree

\* the (name, kind) pairs of a sequence of nodes or of entities
NodePairs(nodes) == {<<nodes[i].name, nodes[i].type>> : i \in 1..Len(nodes)}
EntityPairs(entities) == {<<entities[i].name, entities[i].etype>> : i \in 1..Len(entities)}

\* a node and everything below it obeys the guard kept per root-to-node
\* path, ancestors being the names on the path from the root to the node
RECURSIVE NodeGuardedPerPath(_, _, _)
NodeGuardedPerPath(lookups, node, ancestors) ==
    LET named == children_map(lookups, node.name) IN
    /\ node.children = <<>> => (named = <<>> \/ node.name \in ancestors)
    /\ node.children # <<>> =>
          /\ Len(node.children) = Len(named)
          /\ NodePairs(node.children) = EntityPairs(named)
    /\ \A i \in 1..Len(node.children) :
          NodeGuardedPerPath(lookups, node.children[i], ancestors \cup {node.name})

\* C16: the cycle guard of get_descendants_tree is kept per root-to-node
\* path: a node is a childless leaf only if no entity names it as parent or
\* its name is among its own ancestors, and every other node has as children
\* exactly the entities whose parent names it.
TreeGuardPerPath ==
    (TreeReturned /\ hier.tree # NoTree) =>
        NodeGuardedPerPath(hier.lookups, hier.tree, {})

InOrgReturned == hier.call = "is_employee_in_org"

\* the i-th membership of the call puts the employee in the org asked for
MembershipMatches(i) ==
    LET m == hier.memberships[i]
        path == get_hierarchy_path(hier.loaded, hier.lookups, m.name, "team")
    IN \/ m.type = "org" /\ m.name = hier.org_name
       \/ /\ m.type = "team"
          /\ \E j \in 1..Len(path) : path[j].type = "org" /\ path[j].name = hier.org_name

\* C17: is_employee_in_org(uid, org) is true exactly when the membership
\* index lists for uid a direct org membership named org or a team
\* membership whose hierarchy path holds an entry of kind org named org, and
\* no path is computed for a membership that follows the first match.
InOrgIffMembership ==
    InOrgReturned =>
        LET n == Len(hier.memberships) IN
        /\ hier.result <=> (hier.loaded /\ \E i \in 1..n : MembershipMatches(i))
        /\ \A i \in 1..n :
              (\E m \in 1..(i - 1) : MembershipMatches(m))
                  => \A c \in 1..Len(hier.computed) : hier.computed[c] # i
        /\ \A c \in 1..Len(hier.computed) :
              hier.memberships[hier.computed[c]].type = "team"

\* the first of two team memberships matched through its path and the path
\* of the second was not computed
InOrgShortCircuits ==
    /\ InOrgReturned
    /\ hier.result
    /\ Len(hier.memberships) = 2
    /\ hier.memberships[1].type = "team"
    /\ hier.memberships[2].type = "team"
    /\ hier.computed = <<1>>

VersionDescribes(v, d) ==
    /\ v.employee_count = Cardinality(d.employees)
    /\ v.org_count = Cardinality(d.orgs)
    /\ (v = DefaultVersion) <=> ~d.loaded

\* some reader is at a point where it reads self._data or self._version.
\* (_get_uid_from_slack_id of Service reads self._data without the lock, but
\* no method reads self._version without it.)
ReaderReads ==
    \E r \in Readers :
        \/ guard.reader[r].pc = "locked"
        \/ impl = "AsyncService" /\ guard.reader[r].pc = "idle" /\ ReaderCanRun(r)

\* C19: the snapshot and its DataVersion are replaced together: whenever a
\* reader reads through get_version or a query method, the version counts
\* the employees and orgs of the installed snapshot, and it is the default
\* version exactly when no snapshot is installed.
VersionMatchesSnapshot == ReaderReads => VersionDescribes(version, data)

\* a reader holds the lock while the second install waits for it
ReaderReadsDuringSwap ==
    /\ \E r \in Readers : guard.reader[r].pc = "locked"
    /\ guard.swap = "parsed"
    /\ guard.swaps = 2
    /\ data.loaded

\* C20: no query method holds the lock while it scans snapshot data: a
\* reader inside its scan has released the lock.
ScanOutsideGuard ==
    \A r \in Readers : guard.reader[r].pc = "scan" => guard.owner # r

\* C21: the fetch, the JSON decoding, the parsing and the validation of a
\* load run without the lock, which the load takes only for the final
\* assignments; while the fetch is under way a reader that finds the lock
\* free can enter its query.
LoadStagesOutsideGuard ==
    /\ guard.swap \in {"fetching", "fetched", "parsed"} => guard.owner # "swap"
    /\ (guard.swap = "fetching" /\ guard.owner = "free")
          => \A r \in Readers : guard.reader[r].pc = "idle" => ENABLED ReaderAcquire(r)

\* a reader is inside its scan while a load waits for its fetch
ReaderScansDuringFetch ==
    /\ guard.swap = "fetching"
    /\ \E r \in Readers : guard.reader[r].pc = "scan" /\ guard.owner = r

\* the caller enters stop_watcher in this step
StopStep == op' = "stop" /\ ops' = ops + 1

\* no watcher was ever started on the service
NoWatcherEver ==
    /\ \A p \in Pollers : pc[p] = "off" /\ watch_state[p] = "none"
    /\ pc[RunWatcher] = "off"
    /\ watcher_task = "None"

ReadyIffEmployees ==
    /\ is_ready(impl, data) <=> (data.loaded /\ data.employees # {})
    /\ is_healthy(impl, data) <=> data.loaded
    /\ op = "is_ready" => (res[Main] = "True" <=> (data.loaded /\ data.employees # {}))
    /\ op = "is_healthy" => (res[Main] = "True" <=> data.loaded)

\* C24: in every loaded snapshot, each employee get_team_members(T) returns
\* has T among get_teams_for_uid and is_employee_in_team(uid, T) is true.
MembershipConsistent ==
    /\ data.loaded =>
          \A team \in TeamNames :
              LET members == get_team_members(data, team) IN
              \A i \in 1..Len(members) :
                  /\ team \in get_teams_for_uid(data, members[i])
                  /\ is_employee_in_team(data, members[i], team)
    /\ op = "get_team_members" => res[Main] = "True"

UserOrgsReturned == hier.call = "get_user_organizations"

\* the names a membership stands for: its own, and for a team membership
\* those of its hierarchy path after the first entry
MembershipNames(m) ==
    IF m.type = "org" THEN <<m.name>>
    ELSE IF m.type = "team"
    THEN LET path == get_hierarchy_path(hier.loaded, hier.lookups, m.name, "team")
         IN <<m.name>> \o [j \in 1..(Len(path) - 1) |-> path[j + 1].name]
    ELSE <<>>

RECURSIVE AllMembershipNames(_, _)
AllMembershipNames(ms, i) ==
    IF i > Len(ms) THEN <<>> ELSE MembershipNames(ms[i]) \o AllMembershipNames(ms, i + 1)

\* a sequence without the later occurrences of its elements
RECURSIVE FirstOccurrences(_, _, _)
FirstOccurrences(names, i, kept) ==
    IF i > Len(names) THEN kept
    ELSE IF \E j \in 1..Len(kept) : kept[j] = names[i]
    THEN FirstOccurrences(names, i + 1, kept)
    ELSE FirstOccurrences(names, i + 1, Append(kept, names[i]))

\* C25: get_user_organizations returns no two entries of the same name, in
\* the order of the direct memberships, each team membership followed at
\* once by those of its ancestors that are not listed yet.
UserOrgsOrdered ==
    UserOrgsReturned =>
        LET orgs == hier.orgs
            names == [i \in 1..Len(orgs) |-> orgs[i].name]
        IN /\ \A i, j \in 1..Len(orgs) : i # j => orgs[i].name # orgs[j].name
           /\ hier.loaded =>
                 names = FirstOccurrences(AllMembershipNames(hier.memberships, 1), 1, <<>>)
           /\ ~hier.loaded => orgs = <<>>

\* two team memberships share an ancestor, which is listed once
UserOrgsSharedAncestor ==
    /\ UserOrgsReturned
    /\ Len(hier.memberships) = 2
    /\ hier.memberships[1].type = "team"
    /\ hier.memberships[2].type = "team"
    /\ hier.memberships[1].name # hier.memberships[2].name
    /\ Len(hier.orgs) = 3
    /\ Len(AllMembershipNames(hier.memberships, 1)) > 3

\* C26: AsyncService.start_data_source_watcher returns in the step that ends
\* its initial load, without waiting for source.watch: when the load
\* succeeded, the watcher task exists on return, has not run yet, and the
\* service is watching.
AsyncStartReturnsAtOnce ==
    [][(impl = "AsyncService" /\ op = "start" /\ LoadReturns(Main))
         => /\ pc'[Main] = "idle"
            /\ res'[Main] = "ok" =>
                  /\ watcher_task' = "task"
                  /\ watcher_running'
                  /\ watcher_source' = "source"
                  /\ pc'[RunWatcher] = "new"]_vars

\* the start has returned and the watcher task has not begun to run
AsyncStartReturnedBeforeWatch ==
    /\ impl = "AsyncService"
    /\ op = "start"
    /\ pc[Main] = "idle"
    /\ res[Main] = "ok"
    /\ pc[RunWatcher] = "new"
    /\ watcher_task = "task"
    /\ watcher_running

(***************************************************************************)
(* AsyncService with sources that may define stop(): the source of         *)
(* tests/test_async_service.py whose watch blocks until stop() is called,  *)
(* the source of test_helpers.py whose watch returns at once, each with    *)
(* no stop(), a stop() that returns, or a stop() that raises.              *)
(***************************************************************************)
StoppableSources ==
    {k \in [has_stop : BOOLEAN, stop_raises : BOOLEAN, watch : {"blocks", "returns"},
            stop_calls : {0}] : k.stop_raises => k.has_stop}

InitStop ==
    /\ ServiceInit
    /\ impl = "AsyncService"
    /\ max_retries = 0
    /\ retry = NoRetry
    /\ hier = NoHier
    /\ guard = NoGuard
    /\ source \in StoppableSources
    /\ gens = NoGens
    /\ starters = NoStarters

\* source.watch returns None without leaving anything behind, so
\* _run_watcher runs its finally clause and ends
WatchReturns ==
    /\ impl = "AsyncService"
    /\ source.watch = "returns"
    /\ pc[RunWatcher] = "setup"
    /\ pc[Main] # "stopwait"
    /\ pc' = [pc EXCEPT ![RunWatcher] = "off"]
    /\ res' = [res EXCEPT ![RunWatcher] = "ok"]
    /\ RunWatcherFinally
    /\ UNCHANGED <<impl, source, gens, starters, max_retries, retry, hier, guard, data, version, clock,
                   stop_event, blob, op, raw, calls, fetch_errors, last_generation,
                   watch_state, query, ops>>

NextStop ==
    \/ StartCall
    \/ StopCall
    \/ Fetch(Main)
    \/ Decode(Main)
    \/ RunWatcherStarts
    \/ WatchReturns
    \/ RunWatcherCancelled
    \/ StopReturn

SpecStop == InitStop /\ [][NextStop]_vars

AtMostOneLoadInProgress ==
    Cardinality({t \in LoadThreads : pc[t] \in LoadPcs}) <= 1

\* C29: the stored snapshot never goes back to older content of the source:
\* an assignment that puts content of an earlier object generation than the
\* stored one into the store leaves the stored content as it was.
SnapshotNeverRegresses ==
    [][gens'.installed < gens.installed => data' = data]_vars

RECURSIVE Power(_, _)
Power(b, e) == IF e = 0 THEN 1 ELSE b * Power(b, e - 1)

\* C30: the waits of _retry_with_backoff and of its async twin: the wait
\* before the k-th retry is initial_delay times backoff to the power k-1, and
\* there is one wait for every failed attempt that is followed by another
\* attempt, so none after the attempt that succeeds and none after the
\* final failed attempt.
BackoffSchedule ==
    retry.phase = "returned" =>
        LET r == retry.result
            failed == IF r.ok THEN r.calls - 1 ELSE r.calls
        IN /\ Len(r.waits) = r.calls - 1
           /\ Len(r.waits) = IF r.ok THEN failed ELSE failed - 1
           /\ failed = IF retry.n <= retry.max_retries THEN retry.n
                       ELSE retry.max_retries + 1
           /\ \A k \in 1..Len(r.waits) :
                 r.waits[k] = retry.initial_delay * Power(retry.backoff, k - 1)

\* three attempts failed, the budget of two retries is used up: two waits,
\* the second twice the first, and none after the last attempt
BackoffExhausted ==
    /\ retry.phase = "returned"
    /\ ~retry.result.ok
    /\ retry.max_retries = 2 /\ retry.result.calls = 3
    /\ retry.backoff = 2
    /\ retry.result.waits = <<retry.initial_delay, 2 * retry.initial_delay>>

\* C31: the load_time that get_version reports never decreases, given that
\* datetime.now() does not step back: it is read inside the guarded
\* assignment, so also loads that overlap stamp it in the order in which they
\* assign; a load that fails leaves the version as it was, and the version
\* changes only when a load ends successfully.
LoadTimeNeverDecreases ==
    [][/\ version'.load_time >= version.load_time
       /\ \A t \in LoadThreads :
             (pc[t] = "decode" /\ pc'[t] # "decode" /\ load_stage(impl, raw[t]) # "ok")
                => version' = version
       /\ version' # version
             => \E t \in LoadThreads :
                   /\ pc[t] = "decode" /\ pc'[t] # "decode"
                   /\ load_stage(impl, raw[t]) = "ok"
                   /\ version'.load_time = clock]_vars

\* the caller's load and a reload of the polling loop overlap: the reload has
\* made its assignment, stamped later than the first load, while the caller
\* still holds the older content it fetched
LoadTimeAfterOverlap ==
    /\ version.load_time = 2
    /\ op = "load" /\ pc[Main] = "decode"
    /\ gens.fetched[Main] < gens.installed
    /\ \E p \in Pollers : res[p] = "ok" /\ pc[p] = "sleep"

\* C32: a service that has loaded successfully never returns to the unloaded
\* state: once is_healthy() is true it is true in every later state, whatever
\* failed loads, reloads, watcher starts and stops follow.
LoadedStaysLoaded ==
    [][is_healthy(impl, data) => is_healthy(impl, data')]_vars

\* the service is still healthy after a reload that failed and a stop_watcher
HealthyAfterFailedReloadAndStop ==
    /\ is_healthy(impl, data)
    /\ op = "stop" /\ pc[Main] = "idle"
    /\ \E p \in Pollers : res[p] \in DataLoadErrors

(***************************************************************************)
(* The three hierarchy queries together, on every entity graph.            *)
(***************************************************************************)
NextVariants == HierarchyPathCall \/ DescendantsTreeCall \/ InOrgCall

SpecVariants == InitHierarchy /\ [][NextVariants]_vars

\* C33: on the same snapshot Service and AsyncService return equal results
\* for get_hierarchy_path, get_descendants_tree and is_employee_in_org,
\* whatever the arguments.
VariantsAgree ==
    /\ hier.call = "get_hierarchy_path" =>
          hier.path = async_get_hierarchy_path(hier.loaded, hier.lookups,
                                               hier.name, hier.kind)
    /\ hier.call = "get_descendants_tree" =>
          hier.tree = async_get_descendants_tree(hier.loaded, hier.lookups, hier.name)
    /\ hier.call = "is_employee_in_org" =>
          hier.result = async_is_employee_in_org(hier.loaded, hier.lookups,
                                                 hier.memberships, hier.org_name)

\* both variants answer a query for kind "TEAM" with the path of two entries,
\* the second found in the org map
VariantsAgreeOnPath ==
    /\ hier.call = "get_hierarchy_path"
    /\ hier.kind = "TEAM"
    /\ Len(hier.path) = 2 /\ hier.path[2].type = "org"
    /\ hier.path = async_get_hierarchy_path(hier.loaded, hier.lookups,
                                            hier.name, hier.kind)

\* the names of the nodes of a tree that were given children, in the order
\* of the traversal, and the number of nodes of a tree
RECURSIVE ExpandedNames(_)
RECURSIVE ExpandedNamesOf(_, _)
ExpandedNames(node) ==
    (IF node.children # <<>> THEN <<node.name>> ELSE <<>>)
        \o ExpandedNamesOf(node.children, 1)
ExpandedNamesOf(children, i) ==
    IF i > Len(children) THEN <<>>
    ELSE ExpandedNames(children[i]) \o ExpandedNamesOf(children, i + 1)

RECURSIVE TreeSize(_)
RECURSIVE TreeSizeOf(_, _)
TreeSize(node) == 1 + TreeSizeOf(node.children, 1)
TreeSizeOf(children, i) ==
    IF i > Len(children) THEN 0
    ELSE TreeSize(children[i]) + TreeSizeOf(children, i + 1)

\* C34: get_descendants_tree returns for every parent graph, also one with
\* cycles and with a name held by entities of two kinds: no name is given
\* children more than once in the whole tree, so the tree has at most one
\* node for the root and one for every entity under every expanded name.
TreeExpandsEachNameOnce ==
    (TreeReturned /\ hier.tree # NoTree) =>
        LET expanded == ExpandedNames(hier.tree)
            entities == Len(all_entities(hier.lookups))
        IN /\ \A i, j \in 1..Len(expanded) : expanded[i] = expanded[j] => i = j
           /\ TreeSize(hier.tree) <= 1 + entities

\* a tree over a cycle of two names, one of them held by a team and an org:
\* both entities of that name are nodes and only one of them has children
TreeOverCycleWithEqualNames ==
    /\ TreeReturned /\ hier.tree # NoTree
    /\ hier.tree.name = "a"
    /\ "b" \in DOMAIN hier.lookups.teams /\ "b" \in DOMAIN hier.lookups.orgs
    /\ Len(hier.tree.children) = 2
    /\ hier.tree.children[1].children # <<>>
    /\ hier.tree.children[1].children[1].name = "a"
    /\ hier.tree.children[2].children = <<>>

(***************************************************************************)
(* A service whose watcher on a source was started and then stopped, as    *)
(* Spec reaches it after start_data_source_watcher and stop_watcher: the   *)
(* polling loop of that source is still alive.  The calls that follow      *)
(* are counted from here.  The loop left over loads through the callback   *)
(* it was given, which holds the source of the earlier watch.              *)
(***************************************************************************)
StoppedAfterWatch ==
    /\ impl \in {"Service", "AsyncService"}
    /\ data = parse_data(GoodA).data
    /\ version = DataVersion(1, data)
    /\ clock = 2
    /\ watcher_running = FALSE
    /\ stop_event = (impl = "Service")
    /\ watcher_task = "None"
    /\ watcher_source = "None"
    /\ blob = [content |-> GoodA, generation |-> 1]
    /\ pc = [t \in Threads |-> IF t = Main THEN "idle" ELSE IF t = 1 THEN "sleep" ELSE "off"]
    /\ op = "stop"
    /\ res = [t \in Threads |-> IF t = Main THEN "ok"
                                ELSE IF t = RunWatcher /\ impl = "AsyncService" THEN "ok"
                                ELSE "none"]
    /\ raw = [t \in Threads |-> NoPayload]
    /\ calls = [t \in Threads |-> 0]
    /\ fetch_errors = [t \in Threads |-> 0]
    /\ last_generation = [p \in Pollers |-> IF p = 1 THEN 1 ELSE 0]
    /\ watch_state = [p \in Pollers |-> IF p = 1 THEN "stopped" ELSE "none"]
    /\ query = NoQuery
    /\ max_retries = 0
    /\ retry = NoRetry
    /\ hier = NoHier
    /\ guard = NoGuard
    /\ source = GCSSource
    /\ gens = [NoGens EXCEPT !.installed = 1]
    /\ starters = NoStarters

InitRewatch == StoppedAfterWatch /\ ops = 0

SpecRewatch == InitRewatch /\ [][Next]_vars

\* C35: after stop_watcher and a start_data_source_watcher on another source
\* that has returned, the snapshot is replaced only with content of the new
\* source: a polling loop left over from the stopped watch, whose callback
\* loads from the earlier source, makes no assignment any more.
LeftoverLoopInstallsNothing ==
    [][\A p \in Pollers :
          (/\ op = "start" /\ pc[Main] = "idle" /\ res[Main] = "ok"
           /\ watch_state[p] \in {"stopped", "stopped_midfetch"}
           /\ pc[p] = "decode" /\ pc'[p] # "decode")
             => UNCHANGED <<data, version>>]_vars

\* C36: a polling loop calls the reload callback at most once for every
\* change of the generation it observes: it enters a reload only when the
\* generation differs from the one it recorded, it has recorded the new one
\* when the reload begins, and so after a reload, failed or not, it starts no
\* other until the generation changes again.
ReloadOncePerGeneration ==
    [][\A p \in Pollers :
          /\ (pc[p] = "sleep" /\ pc'[p] = "fetch")
                => /\ last_generation[p] # blob.generation
                   /\ last_generation'[p] = blob.generation
          /\ (pc[p] \in LoadPcs /\ pc'[p] = "sleep")
                => last_generation'[p] = last_generation[p]
          /\ (pc[p] = "sleep" /\ blob.generation = last_generation[p])
                => ~ENABLED Poll(p)]_vars

\* the reload a polling loop made for generation 2 has failed and the loop
\* sleeps again with that generation recorded
FailedReloadNotRepeated ==
    \E p \in Pollers :
        /\ pc[p] = "sleep"
        /\ res[p] \in DataLoadErrors
        /\ blob.generation = 2
        /\ last_generation[p] = 2

(***************************************************************************)
(* Two tasks of one event loop calling start_data_source_watcher on the    *)
(* same AsyncService.  A call tests _watcher_running, awaits the initial   *)
(* load, and only after the load sets the flag and creates the task.       *)
(***************************************************************************)
InitOverlap ==
    /\ ServiceInit
    /\ impl = "AsyncService"
    /\ max_retries = 0
    /\ retry = NoRetry
    /\ hier = NoHier
    /\ guard = NoGuard
    /\ source = GCSSource
    /\ gens = NoGens
    /\ starters = NoStarters

OverlapUnchanged ==
    UNCHANGED <<impl, source, gens, stop_event, blob, op, res, raw, calls, fetch_errors,
                last_generation, watch_state, query, ops, max_retries, retry, hier,
                guard>>

\* "if self._watcher_running: raise RuntimeError", else the call suspends in
\* "await self.load_from_data_source(source)"
OverlapStartCall(c) ==
    /\ starters[c].pc = "idle"
    /\ starters' = [starters EXCEPT ![c] =
                       IF watcher_running THEN [pc |-> "done", res |-> "RuntimeError"]
                       ELSE [pc |-> "loading", res |-> "pending"]]
    /\ UNCHANGED <<data, version, clock, watcher_running, watcher_task, watcher_source, pc>>
    /\ OverlapUnchanged

\* the awaited load ends: a failure is raised to the caller; after a success
\* the call sets the flag and the source and creates the task _run_watcher
OverlapLoadEnds(c) ==
    /\ starters[c].pc = "loading"
    /\ LET stage == load_stage(impl, blob.content) IN
       IF stage # "ok"
       THEN /\ starters' = [starters EXCEPT ![c] = [pc |-> "done", res |-> LoadError(stage)]]
            /\ UNCHANGED <<data, version, clock, watcher_running, watcher_task,
                           watcher_source, pc>>
       ELSE /\ Replace(parse_data(blob.content).data)
            /\ watcher_running' = TRUE
            /\ watcher_source' = "source"
            /\ watcher_task' = "task"
            /\ pc' = [pc EXCEPT ![RunWatcher] = "new"]
            /\ starters' = [starters EXCEPT ![c] = [pc |-> "done", res |-> "ok"]]
    /\ OverlapUnchanged

\* somebody uploads new content while the calls are under way
OverlapUpdateBlob ==
    /\ blob.generation < MaxGen
    /\ \E c \in Payloads : blob' = [content |-> c, generation |-> blob.generation + 1]
    /\ UNCHANGED <<impl, source, gens, starters, data, version, clock, watcher_running,
                   stop_event, watcher_task, watcher_source, pc, op, res, raw, calls,
                   fetch_errors, last_generation, watch_state, query, ops, max_retries,
                   retry, hier, guard>>

NextOverlap ==
    \/ \E c \in Starters : OverlapStartCall(c)
    \/ \E c \in Starters : OverlapLoadEnds(c)
    \/ OverlapUpdateBlob

SpecOverlap == InitOverlap /\ [][NextOverlap]_vars

\* C37: of two calls of start_data_source_watcher on one AsyncService, the
\* second begun while the first still awaits its initial load, at most one
\* starts a watcher; the other raises RuntimeError.
OverlappingStartsExclude ==
    Cardinality({c \in Starters : starters[c].res = "ok"}) <= 1

\* C38: when source.watch reports a setup error, the synchronous
\* start_data_source_watcher raises that error, the snapshot installed by the
\* initial load stays current, and the service is left not watching.
WatchErrorRaised ==
    [][(impl = "Service" /\ pc[Main] = "watch" /\ pc'[Main] = "idle" /\ res'[Main] # "ok")
          => /\ res'[Main] = "GCSError"
             /\ data.loaded
             /\ data' = data
             /\ version' = version
             /\ ~watcher_running']_vars

WatchErrorLeavesSnapshot ==
    /\ impl = "Service"
    /\ op = "start"
    /\ pc[Main] = "idle"
    /\ res[Main] = "GCSError"
    /\ data.loaded
    /\ ~watcher_running

(***************************************************************************)
(* The lock under nested calls.  is_employee_in_org and                    *)
(* get_user_organizations walk the memberships inside their guarded block  *)
(* and ask for the hierarchy path of every team: Service calls the public  *)
(* get_hierarchy_path, which enters "with self._lock" again; AsyncService  *)
(* calls _get_hierarchy_path, which takes no lock.  Loads install their    *)
(* snapshots alongside.                                                    *)
(***************************************************************************)
\* team memberships one call walks at most
MaxNest == 2

NestCalls == {"is_employee_in_org", "get_user_organizations", "get_hierarchy_path"}

\* threading.RLock is granted to its owner again; asyncio.Lock is not
LockAvailable(r) ==
    \/ guard.owner = "free"
    \/ impl = "Service" /\ guard.owner = r

\* a thread or task calls one of the methods and reaches its guarded block
NestCall(r) ==
    /\ guard.reader[r].pc = "idle"
    /\ ReaderCanRun(r)
    /\ \E c \in NestCalls, n \in 0..MaxNest :
         /\ c = "get_hierarchy_path" => n = 0
         /\ guard' = [guard EXCEPT !.reader[r] =
                          [NoReader EXCEPT !.pc = "wait", !.call = c, !.pos = n]]
    /\ UNCHANGED <<data, version, clock>>
    /\ GuardUnchanged

\* with self._lock: / async with self._lock: of the method called
NestAcquire(r) ==
    /\ guard.reader[r].pc = "wait"
    /\ LockAvailable(r)
    /\ ReaderCanRun(r)
    /\ guard' = [guard EXCEPT !.owner = r, !.reader[r].pc = "outer"]
    /\ UNCHANGED <<data, version, clock>>
    /\ GuardUnchanged

\* the task is cancelled before it has the lock: CancelledError leaves the
\* call, the block was never entered
NestCancel(r) ==
    /\ impl = "AsyncService"
    /\ guard.reader[r].pc = "wait"
    /\ guard' = [guard EXCEPT !.reader[r] = [NoReader EXCEPT !.result = "CancelledError"]]
    /\ UNCHANGED <<data, version, clock>>
    /\ GuardUnchanged

\* NestInnerCall with AsyncService going through the public, locking
\* get_hierarchy_path as Service does
NestInnerCallLocks(r) ==
    LET me == guard.reader[r] IN
    /\ me.pc = "outer"
    /\ me.call # "get_hierarchy_path"
    /\ me.pos > 0
    /\ ReaderCanRun(r)
    /\ guard' = [guard EXCEPT !.reader[r].pc = "inner_wait"]
    /\ UNCHANGED <<data, version, clock>>
    /\ GuardUnchanged

\* a team membership: Service calls self.get_hierarchy_path and arrives at
\* its "with self._lock"; AsyncService calls self._get_hierarchy_path
NestInnerCall(r) ==
    LET me == guard.reader[r] IN
    /\ me.pc = "outer"
    /\ me.call # "get_hierarchy_path"
    /\ me.pos > 0
    /\ ReaderCanRun(r)
    /\ guard' = [guard EXCEPT !.reader[r].pc =
                     IF impl = "Service" THEN "inner_wait" ELSE "inner"]
    /\ UNCHANGED <<data, version, clock>>
    /\ GuardUnchanged

\* Service.get_hierarchy_path: with self._lock:, from inside the outer block
NestReenter(r) ==
    /\ guard.reader[r].pc = "inner_wait"
    /\ LockAvailable(r)
    /\ ReaderCanRun(r)
    /\ guard' = [guard EXCEPT !.owner = r, !.reader[r].pc = "inner"]
    /\ UNCHANGED <<data, version, clock>>
    /\ GuardUnchanged

\* the path is returned: the inner block (Service) ends, the outer one goes
\* on with the next membership
NestInnerReturn(r) ==
    /\ guard.reader[r].pc = "inner"
    /\ ReaderCanRun(r)
    /\ guard' = [guard EXCEPT !.reader[r].pc = "outer", !.reader[r].pos = @ - 1]
    /\ UNCHANGED <<data, version, clock>>
    /\ GuardUnchanged

\* a return statement of the outer block, at the end of the loop or before
NestReturn(r) ==
    /\ guard.reader[r].pc = "outer"
    /\ ReaderCanRun(r)
    /\ guard' = [guard EXCEPT !.owner = "free",
                                !.reader[r] = [NoReader EXCEPT !.result = "returned"]]
    /\ UNCHANGED <<data, version, clock>>
    /\ GuardUnchanged

\* an exception inside the blocks: every with statement it passes releases
NestRaise(r) ==
    /\ guard.reader[r].pc \in {"outer", "inner"}
    /\ ReaderCanRun(r)
    /\ guard' = [guard EXCEPT !.owner = "free",
                                !.reader[r] = [NoReader EXCEPT !.result = "raised"]]
    /\ UNCHANGED <<data, version, clock>>
    /\ GuardUnchanged

NextNest ==
    \/ SwapFetch
    \/ SwapFetched
    \/ SwapParsed
    \/ SwapAcquire
    \/ SwapData
    \/ SwapVersion
    \/ SwapRelease
    \/ \E r \in Readers : NestCall(r)
    \/ \E r \in Readers : NestAcquire(r)
    \/ \E r \in Readers : NestCancel(r)
    \/ \E r \in Readers : NestInnerCall(r)
    \/ \E r \in Readers : NestReenter(r)
    \/ \E r \in Readers : NestInnerReturn(r)
    \/ \E r \in Readers : NestReturn(r)
    \/ \E r \in Readers : NestRaise(r)

SpecNest == InitGuard /\ [][NextNest]_vars

\* the next step of whoever holds the lock
OwnerStep ==
    \/ \E r \in Readers :
          /\ guard.owner = r
          /\ NestInnerCall(r) \/ NestReenter(r) \/ NestInnerReturn(r) \/ NestReturn(r)
    \/ guard.owner = "swap" /\ (SwapData \/ SwapVersion \/ SwapRelease)

\* C39: the store guard never causes a deadlock: no AsyncService call waits
\* for the lock while it holds it, the nested calls of Service re-enter the
\* lock from the owning thread only, every acquisition is released on all
\* paths (return, exception, cancellation), and whoever holds the lock can
\* always take its next step.
GuardNeverDeadlocks ==
    /\ \A r \in Readers :
          guard.reader[r].pc = "inner_wait" => (impl = "Service" /\ guard.owner = r)
    /\ \A r \in Readers :
          guard.reader[r].pc \in {"outer", "inner", "inner_wait"} <=> guard.owner = r
    /\ guard.owner = "swap" <=> guard.swap \in {"locked", "data_set", "version_set"}
    /\ guard.owner # "free" => ENABLED OwnerStep

ReenteredWhileOtherWaits ==
    /\ impl = "Service"
    /\ guard.owner = "r1"
    /\ guard.reader["r1"].pc = "inner"
    /\ guard.reader["r1"].call = "get_user_organizations"
    /\ guard.reader["r2"].pc = "wait"
    /\ guard.swap = "parsed"

====
